---------------------------- MODULE Spec2Model ----------------------------
(***************************************************************************)
(* Companion Memory Core of NeverEndingQuest-Reforged:                     *)
(*   core/memories/emotional_vectors.py   EmotionalVector                  *)
(*   core/memories/action_parser.py       ActionParser, ParsedAction       *)
(*   core/memories/memory_crystallizer.py MemoryCrystallizer, CoreMemory   *)
(*   core/memories/companion_memory.py    CompanionMemoryManager           *)
(*                                                                         *)
(* Numbers.  Python floats are modelled in fixed point:                    *)
(*   emotional axes (state, deltas, impacts)   thousandths  (1000 = 1.0)   *)
(*   velocity, mass, decay resistance          hundredths   (the code      *)
(*                                             rounds them to 2 decimals)  *)
(*   behavioural axes                          tenths       (10 = 1.0)     *)
(* Every impact of the catalogue is a multiple of 0.1, so every delta is a *)
(* multiple of 100 thousandths.                                            *)
(*                                                                         *)
(* Text.  A summary is a sequence of tokens joined by single spaces: a     *)
(* word-boundary mention of a name, a name embedded in a longer word, a    *)
(* literal phrase of the pattern catalogue, or filler of a given length.   *)
(***************************************************************************)
EXTENDS Integers, Sequences, FiniteSets, TLC

VARIABLES
    mode,                     \* CompanionMemoryManager.mode
    crystallization_threshold,\* MemoryCrystallizer.crystallization_threshold
    memory_counter,           \* MemoryCrystallizer.memory_counter
    npc_interaction_counts,   \* MemoryCrystallizer.npc_interaction_counts
    npc_memories,             \* CompanionMemoryManager.npc_memories
    npc_emotional_states,     \* CompanionMemoryManager.npc_emotional_states
    npc_behavioral_models,    \* CompanionMemoryManager.npc_behavioral_models
    interaction_counts,       \* CompanionMemoryManager.interaction_counts
    day_counter,              \* CompanionMemoryManager.day_counter
    last_date,                \* CompanionMemoryManager.last_date (<<>> is None)
    processed_entries,        \* CompanionMemoryManager.processed_entries
    call,                     \* the last call: operation, arguments, result
    calls,                    \* number of calls made so far
    accepted_log,             \* per companion, every memory returned so far
    date_log,                 \* the dates of the entries not skipped as replays
    vec                       \* a free-standing EmotionalVector object

vars == <<mode, crystallization_threshold, memory_counter,
          npc_interaction_counts, npc_memories, npc_emotional_states,
          npc_behavioral_models, interaction_counts, day_counter, last_date,
          processed_entries, call, calls, accepted_log, date_log, vec>>

\* The session state of the manager and of its crystallizer.
session == <<crystallization_threshold, memory_counter,
             npc_interaction_counts, npc_memories, npc_emotional_states,
             npc_behavioral_models, interaction_counts, day_counter,
             last_date, processed_entries>>

-----------------------------------------------------------------------------
(* Bounds of the model *)

MaxCalls == 3          \* calls of one session under Spec
MaxLongCalls == 7      \* calls of one session under SpecLong
MaxVecCalls == 3       \* add/set calls under SpecVector
MaxSessionCalls == 3   \* process/clear calls under SpecSession
MaxParserCalls == 3    \* calls of the parser and crystallizer under SpecParser
MaxChainCalls == 3     \* process calls under SpecChains

-----------------------------------------------------------------------------
(* Generic helpers *)

Max(a, b) == IF a >= b THEN a ELSE b
Min(a, b) == IF a <= b THEN a ELSE b
Abs(a) == IF a < 0 THEN -a ELSE a

\* dict.get(key, default)
Get(d, k, default) == IF k \in DOMAIN d THEN d[k] ELSE default

\* d[k] = v on a dict (creates the key)
Put(d, k, v) == [x \in DOMAIN d \cup {k} |-> IF x = k THEN v ELSE d[x]]

\* reading d[k] on a defaultdict: a missing key is created with the default
Touch(d, k, default) == IF k \in DOMAIN d THEN d ELSE Put(d, k, default)

EmptyDict == [x \in {} |-> 0]

RECURSIVE ISqrtIn(_, _, _)
ISqrtIn(x, lo, hi) ==
    IF lo = hi THEN lo
    ELSE LET mid == (lo + hi + 1) \div 2
         IN IF mid * mid <= x THEN ISqrtIn(x, mid, hi) ELSE ISqrtIn(x, lo, mid - 1)

\* floor(sqrt(x)) for 0 <= x < 2^30
ISqrt(x) == ISqrtIn(x, 0, 32767)

\* round(sqrt(q)) to the nearest integer: floor(sqrt(q) + 1/2)
RoundSqrt(q) == (ISqrt(4 * q) + 1) \div 2

\* x / y (y > 0) rounded as a floating-point product is: to the nearest
\* representable value, a tie going to the even one
RoundDiv(x, y) ==
    LET a == IF x >= 0 THEN x ELSE -x
        q == a \div y
        r == a % y
        n == IF 2 * r > y \/ (2 * r = y /\ q % 2 = 1) THEN q + 1 ELSE q
    IN IF x >= 0 THEN n ELSE -n

-----------------------------------------------------------------------------
(* emotional_vectors.py *)

Unit == 1000

Emotions == <<"trust", "power", "intimacy", "fear", "respect">>
EmotionSet == {Emotions[i] : i \in DOMAIN Emotions}

\* EmotionalDimensions: the declared bounds of each axis
DimMin(e) == IF e \in {"intimacy", "fear"} THEN 0 ELSE -Unit
DimMax(e) == Unit

ZeroVector == [e \in EmotionSet |-> 0]

Clamp(e, v) == Max(DimMin(e), Min(DimMax(e), v))

\* add() without the clamping
VecAddUnclamped(v, emotion, value) ==
    IF emotion \notin DOMAIN v THEN v
    ELSE [v EXCEPT ![emotion] = @ + value]

\* EmotionalVector.add
VecAdd(v, emotion, value) ==
    IF emotion \notin DOMAIN v THEN v
    ELSE [v EXCEPT ![emotion] = Clamp(emotion, @ + value)]

\* set() without the reset to zero
VecSetNoReset(v, emotion, value) == VecAdd(v, emotion, value)

\* EmotionalVector.set
VecSet(v, emotion, value) ==
    IF emotion \in DOMAIN v
    THEN VecAdd([v EXCEPT ![emotion] = 0], emotion, value)
    ELSE v

\* EmotionalVector.__init__(initial_values)
RECURSIVE VecInitFrom(_, _, _)
VecInitFrom(v, d, i) ==
    IF i > Len(Emotions) THEN v
    ELSE LET e == Emotions[i]
         IN VecInitFrom(IF e \in DOMAIN d THEN VecAdd(v, e, d[e]) ELSE v, d, i + 1)

NewVector(initial_values) == VecInitFrom(ZeroVector, initial_values, 1)

\* Axis values in tenths (deltas are multiples of 0.1)
Tenths(x) == x \div 100

\* EmotionalVector.dot_product, in hundredths
Dot(a, b) ==
    Tenths(a["trust"]) * Tenths(b["trust"]) + Tenths(a["power"]) * Tenths(b["power"])
    + Tenths(a["intimacy"]) * Tenths(b["intimacy"]) + Tenths(a["fear"]) * Tenths(b["fear"])
    + Tenths(a["respect"]) * Tenths(b["respect"])

\* EmotionalVector.magnitude squared, in hundredths
MagSq(a) == Dot(a, a)

\* cosine_similarity(a, b) compared with a bound num/10, without square roots.
\* A zero operand gives similarity 0.
CosLess(a, b, num) ==
    LET d == Dot(a, b)
        mm == MagSq(a) * MagSq(b)
    IN IF mm = 0 THEN 0 < num
       ELSE IF num < 0 THEN d < 0 /\ 100 * d * d > num * num * mm
       ELSE d < 0 \/ 100 * d * d < num * num * mm

CosGreater(a, b, num) ==
    LET d == Dot(a, b)
        mm == MagSq(a) * MagSq(b)
    IN IF mm = 0 THEN 0 > num
       ELSE IF num > 0 THEN d > 0 /\ 100 * d * d > num * num * mm
       ELSE d > 0 \/ 100 * d * d < num * num * mm

CosAbsLess(a, b, num) ==
    LET d == Dot(a, b)
        mm == MagSq(a) * MagSq(b)
    IN IF mm = 0 THEN 0 < num ELSE 100 * d * d < num * num * mm

-----------------------------------------------------------------------------
(* action_parser.py *)

\* Proximity window around a mention, in characters
WindowChars == 150

\* The entries of ACTION_PATTERNS and NEGATIVE_PATTERNS used by the model, in
\* catalogue order (positive catalogue first); id is the position in the
\* source catalogue, readable is ParsedAction.get_readable_action().
\*   1 cast(?:ing)?\s+cure\s+wounds          3 offered?\s+reassurance
\*   7 tended?\s+(?:to\s+)?wounds?           8 comforted
\*  17 stood\s+(?:between|against)          44 (?:saved|rescued)\s+(?:from|when)
\*  84 (?:comforted|consoled)\s+(?:in|during)\s+(?:grief|sorrow|pain)
\* 108 (?:betrayed|deceived)\s+(?:by|us)   111 (?:lied|deceived|misled)
\* 114 (?:mocked|ridiculed|belittled)      118 (?:intimidated|frightened|scared)
Catalogue == <<
    [id |-> 1, type |-> "positive", readable |-> "cast healing magic",
     impact |-> [trust |-> 400, intimacy |-> 200]],
    [id |-> 3, type |-> "positive", readable |-> "offered reassurance",
     impact |-> [trust |-> 200, intimacy |-> 100]],
    [id |-> 7, type |-> "positive", readable |-> "s wounds",
     impact |-> [trust |-> 300, intimacy |-> 200]],
    [id |-> 8, type |-> "positive", readable |-> "provided comfort",
     impact |-> [intimacy |-> 300, trust |-> 100]],
    [id |-> 17, type |-> "positive", readable |-> "between against",
     impact |-> [trust |-> 400, respect |-> 300]],
    [id |-> 44, type |-> "positive", readable |-> "performed rescue",
     impact |-> [trust |-> 600, respect |-> 500, intimacy |-> 300]],
    [id |-> 58, type |-> "positive", readable |-> "critical strike",
     impact |-> [respect |-> 400, power |-> 300]],
    [id |-> 84, type |-> "positive", readable |-> "provided comfort",
     impact |-> [intimacy |-> 400, trust |-> 300]],
    [id |-> 108, type |-> "negative", readable |-> "betrayed trust",
     impact |-> [trust |-> -600, respect |-> -400]],
    [id |-> 111, type |-> "negative", readable |-> "deceived ally",
     impact |-> [trust |-> -400, respect |-> -300]],
    [id |-> 114, type |-> "negative", readable |-> "ridiculed belittled",
     impact |-> [respect |-> -300, intimacy |-> -200]],
    [id |-> 118, type |-> "negative", readable |-> "frightened scared",
     impact |-> [fear |-> 500, trust |-> -300]] >>

\* Literal phrases of a text and the catalogue patterns that match inside
\* them: [pat, off, len] says pattern pat matches the len characters of the
\* phrase that start at offset off.
PhraseMatches(text) ==
    CASE text = "cast cure wounds"    -> {[pat |-> 1, off |-> 0, len |-> 16]}
      [] text = "offered reassurance" -> {[pat |-> 3, off |-> 0, len |-> 19]}
      [] text = "tended wound"        -> {[pat |-> 7, off |-> 0, len |-> 12]}
      [] text = "comforted in grief"  -> {[pat |-> 8, off |-> 0, len |-> 9],
                                          [pat |-> 84, off |-> 0, len |-> 18]}
      [] text = "stood between"       -> {[pat |-> 17, off |-> 0, len |-> 13]}
      [] text = "saved from"          -> {[pat |-> 44, off |-> 0, len |-> 10]}
      [] text = "landed a critical hit" -> {[pat |-> 58, off |-> 0, len |-> 21]}
      [] text = "betrayed by"         -> {[pat |-> 108, off |-> 0, len |-> 11]}
      [] text = "deceived us"         -> {[pat |-> 108, off |-> 0, len |-> 11],
                                          [pat |-> 111, off |-> 0, len |-> 8]}
      [] text = "mocked"              -> {[pat |-> 114, off |-> 0, len |-> 6]}
      [] text = "intimidated"         -> {[pat |-> 118, off |-> 0, len |-> 11]}
      [] OTHER -> {}

\* Tokens of a text
Name(n) == [k |-> "name", s |-> n, len |-> Len(n)]
Embedded(n) == [k |-> "sub", s |-> n, len |-> Len(n) + 1]
Phrase(p) == [k |-> "phrase", s |-> p, len |-> Len(p)]
Filler(n) == [k |-> "fill", s |-> "", len |-> n]

RECURSIVE StartOf(_, _)
StartOf(text, i) == IF i = 1 THEN 0 ELSE StartOf(text, i - 1) + text[i - 1].len + 1
EndOf(text, i) == StartOf(text, i) + text[i].len
TextLen(text) == IF text = <<>> THEN 0 ELSE EndOf(text, Len(text))

\* str.lower() and re.IGNORECASE, on the names the texts use
Lower(s) ==
    CASE s \in {"Kira", "KIRA", "kira"} -> "kira"
      [] s \in {"Elen", "ELEN", "elen"} -> "elen"
      [] OTHER -> s

\* npc_name.lower() in summary.lower()
NameInText(text, npc) ==
    \E i \in DOMAIN text :
        text[i].k \in {"name", "sub"} /\ Lower(text[i].s) = Lower(npc)

\* re.finditer(rf'\b{npc_name}\b', text, re.IGNORECASE): positions of the mentions
Mentions(text, npc) ==
    {i \in DOMAIN text : text[i].k = "name" /\ Lower(text[i].s) = Lower(npc)}

\* ActionParser._is_npc_mentioned
IsNpcMentioned(text, npc) == Mentions(text, npc) # {}

\* re.search(pattern, text[from:to].lower())
PatternIn(text, pat, from, to) ==
    \E i \in DOMAIN text :
        /\ text[i].k = "phrase"
        /\ \E m \in PhraseMatches(text[i].s) :
              /\ m.pat = pat
              /\ StartOf(text, i) + m.off >= from
              /\ StartOf(text, i) + m.off + m.len <= to

\* the test of _find_patterns without the proximity window
NearAnywhere(text, npc, pat) ==
    /\ PatternIn(text, pat, 0, TextLen(text))
    /\ Mentions(text, npc) # {}

\* the proximity test of ActionParser._find_patterns for one pattern
Near(text, npc, pat) ==
    /\ PatternIn(text, pat, 0, TextLen(text))
    /\ \E i \in Mentions(text, npc) :
          PatternIn(text, pat,
                    Max(0, StartOf(text, i) - WindowChars),
                    Min(TextLen(text), EndOf(text, i) + WindowChars))

ParsedAction(c, npc) ==
    [pattern |-> c.id, emotional_impact |-> c.impact, npc_name |-> npc,
     action_type |-> c.type, readable |-> c.readable]

RECURSIVE FindFrom(_, _, _, _)
FindFrom(text, npc, type, i) ==
    IF i > Len(Catalogue) THEN <<>>
    ELSE LET c == Catalogue[i]
         IN (IF c.type = type /\ Near(text, npc, c.id)
             THEN <<ParsedAction(c, npc)>> ELSE <<>>)
            \o FindFrom(text, npc, type, i + 1)

\* ActionParser._find_patterns
FindPatterns(text, npc, type) == FindFrom(text, npc, type, 1)

\* ActionParser.parse_entry
ParseEntry(text, npc) ==
    IF ~IsNpcMentioned(text, npc) THEN <<>>
    ELSE FindPatterns(text, npc, "positive") \o FindPatterns(text, npc, "negative")

-----------------------------------------------------------------------------
(* memory_crystallizer.py *)

RECURSIVE AddImpact(_, _, _)
AddImpact(v, impact, i) ==
    IF i > Len(Emotions) THEN v
    ELSE LET e == Emotions[i]
         IN AddImpact(IF e \in DOMAIN impact THEN VecAdd(v, e, impact[e]) ELSE v,
                      impact, i + 1)

\* check_crystallization: emotional_delta, an EmotionalVector that receives
\* every impact of every action through add()
RECURSIVE DeltaFrom(_, _, _)
DeltaFrom(v, actions, i) ==
    IF i > Len(actions) THEN v
    ELSE DeltaFrom(AddImpact(v, actions[i].emotional_impact, 1), actions, i + 1)

EmotionalDelta(actions) == DeltaFrom(ZeroVector, actions, 1)

\* the threshold test with <= for <
BelowOrAtThreshold(delta, threshold) == 10000 * MagSq(delta) <= threshold * threshold

\* velocity < crystallization_threshold (threshold in thousandths)
BelowThreshold(delta, threshold) == 10000 * MagSq(delta) < threshold * threshold

\* round(velocity, 2), in hundredths
RoundedVelocity(delta) == RoundSqrt(100 * MagSq(delta))

\* MemoryCrystallizer._detect_cascade
RECURSIVE CascadeFrom(_, _, _)
CascadeFrom(new_emotion, recent_memories, i) ==
    IF i > Len(recent_memories) THEN "None"
    ELSE LET memory_vector == NewVector(recent_memories[i].emotional_vector)
         IN IF CosLess(new_emotion, memory_vector, -7) THEN "REVERSAL"
            ELSE IF CosGreater(new_emotion, memory_vector, 8) THEN "CONFIRMATION"
            ELSE IF CosAbsLess(new_emotion, memory_vector, 2) /\ MagSq(new_emotion) > 9
                 THEN "COMPLEXITY"
            ELSE CascadeFrom(new_emotion, recent_memories, i + 1)

DetectCascade(new_emotion, existing_memories) ==
    IF existing_memories = <<>> THEN "None"
    ELSE LET n == Len(existing_memories)
             recent_memories == SubSeq(existing_memories, Max(1, n - 2), n)
         IN CascadeFrom(new_emotion, recent_memories, 1)

\* _calculate_mass without the cascade multipliers
CalculateMassPlain(delta, cascade_type) == RoundSqrt(MagSq(delta) * 100)

\* MemoryCrystallizer._calculate_mass, rounded to hundredths
CalculateMass(delta, cascade_type) ==
    RoundSqrt(MagSq(delta) * (CASE cascade_type = "REVERSAL" -> 225
                                [] cascade_type = "CONFIRMATION" -> 144
                                [] cascade_type = "COMPLEXITY" -> 169
                                [] OTHER -> 100))

\* _calculate_decay_resistance without the closing cap
CalculateDecayResistanceUncapped(delta, action_count, cascade_type) ==
    Min(100, RoundSqrt(225 * MagSq(delta)))
    + Min(20, action_count * 5)
    + (IF cascade_type \in {"REVERSAL", "COMPLEXITY"} THEN 20 ELSE 0)

\* MemoryCrystallizer._calculate_decay_resistance, rounded to hundredths
CalculateDecayResistance(delta, action_count, cascade_type) ==
    Min(100, Min(100, RoundSqrt(225 * MagSq(delta)))
             + Min(20, action_count * 5)
             + (IF cascade_type \in {"REVERSAL", "COMPLEXITY"} THEN 20 ELSE 0))

\* MemoryCrystallizer._build_context
BuildContext(actions, location) ==
    LET pos == \E i \in DOMAIN actions : actions[i].action_type = "positive"
        neg == \E i \in DOMAIN actions : actions[i].action_type = "negative"
    IN IF pos /\ neg THEN "Mixed interactions at " \o location
       ELSE IF pos THEN "Positive interaction at " \o location
       ELSE IF neg THEN "Negative encounter at " \o location
       ELSE "Interaction at " \o location

\* an identifier suffix that does not follow the counter
Pad3Fixed(n) == "001"

Pad3(n) ==
    IF n < 10 THEN "00" \o ToString(n)
    ELSE IF n < 100 THEN "0" \o ToString(n) ELSE ToString(n)

\* MemoryCrystallizer.check_crystallization.  cr is the crystallizer
\* [threshold, memory_counter, npc_interaction_counts]; the result is the
\* crystallizer afterwards and the returned memory (<<>> is None).
CheckCrystallization(cr, actions, npc_name, location, timestamp, existing_memories) ==
    IF actions = <<>> THEN [cr |-> cr, memory |-> <<>>]
    ELSE
      LET counts == Put(cr.npc_interaction_counts, npc_name,
                        Get(cr.npc_interaction_counts, npc_name, 0) + 1)
          cr1 == [cr EXCEPT !.npc_interaction_counts = counts]
          emotional_delta == EmotionalDelta(actions)
      IN IF BelowThreshold(emotional_delta, cr.threshold)
         THEN [cr |-> cr1, memory |-> <<>>]
         ELSE
           LET cascade_type == IF existing_memories # <<>>
                               THEN DetectCascade(emotional_delta, existing_memories)
                               ELSE "None"
               counter == cr.memory_counter + 1
               memory ==
                 [id |-> Lower(npc_name) \o "_mem_" \o Pad3(counter),
                  timestamp |-> timestamp,
                  location |-> location,
                  npc_name |-> npc_name,
                  trigger_actions |-> {actions[i].readable : i \in DOMAIN actions},
                  emotional_vector |-> emotional_delta,
                  emotional_velocity |-> RoundedVelocity(emotional_delta),
                  context |-> BuildContext(actions, location),
                  mass |-> CalculateMass(emotional_delta, cascade_type),
                  decay_resistance |->
                      CalculateDecayResistance(emotional_delta, Len(actions), cascade_type),
                  cascade_type |-> cascade_type,
                  interaction_number |-> counts[npc_name]]
           IN [cr |-> [cr1 EXCEPT !.memory_counter = counter], memory |-> <<memory>>]

\* the sort key of prune_memories
Importance(m) == m.emotional_velocity * m.decay_resistance

\* sorted(memories, key=..., reverse=True): stable, descending
RECURSIVE InsertDesc(_, _)
InsertDesc(sorted, m) ==
    IF sorted = <<>> THEN <<m>>
    ELSE IF Importance(Head(sorted)) >= Importance(m)
         THEN <<Head(sorted)>> \o InsertDesc(Tail(sorted), m)
         ELSE <<m>> \o sorted

RECURSIVE SortDesc(_, _)
SortDesc(memories, i) ==
    IF i = 0 THEN <<>> ELSE InsertDesc(SortDesc(memories, i - 1), memories[i])

\* prune_memories that never drops anything
PruneNothing(memories, max_count) == memories

\* prune_memories that cuts the list without sorting it
PruneUnsorted(memories, max_count) ==
    IF Len(memories) <= max_count THEN memories
    ELSE SubSeq(memories, 1, max_count)

\* MemoryCrystallizer.prune_memories
PruneMemories(memories, max_count) ==
    IF Len(memories) <= max_count THEN memories
    ELSE SubSeq(SortDesc(memories, Len(memories)), 1, max_count)

-----------------------------------------------------------------------------
(* memory_gravity.py *)

\* Pulls are kept in units of 0.00001: a mass in hundredths times a cosine
\* similarity in thousandths.  pull_threshold = 0.1
PullThreshold == 10000

\* EmotionalVector.from_dict: set() for every axis the mapping names
RECURSIVE VecFromDict(_, _, _)
VecFromDict(v, data, i) ==
    IF i > Len(Emotions) THEN v
    ELSE LET e == Emotions[i]
         IN VecFromDict(IF e \in DOMAIN data THEN VecSet(v, e, data[e]) ELSE v,
                        data, i + 1)

\* the branch of _extract_situation_vector an action type falls in
ActionClass(action_type) ==
    CASE action_type \in {"heal", "Help them"}      -> "heal"
      [] action_type \in {"fight", "combat"}        -> "fight"
      [] action_type \in {"talk", "conversation"}   -> "talk"
      [] action_type \in {"threat", "danger"}       -> "threat"
      [] OTHER -> "none"

\* MemoryGravity._extract_situation_vector
ExtractSituationVector(situation) ==
    LET v0 == IF "emotions" \in DOMAIN situation
              THEN VecFromDict(ZeroVector, situation.emotions, 1) ELSE ZeroVector
        c  == IF "action_type" \in DOMAIN situation
              THEN ActionClass(situation.action_type) ELSE "none"
        v1 == CASE c = "heal"   -> VecAdd(VecAdd(v0, "trust", 300), "intimacy", 100)
                [] c = "fight"  -> VecAdd(VecAdd(v0, "trust", 200), "respect", 200)
                [] c = "talk"   -> VecAdd(v0, "intimacy", 200)
                [] c = "threat" -> VecAdd(VecAdd(v0, "fear", 300), "trust", 200)
                [] OTHER -> v0
        v2 == IF Get(situation, "danger_level", 0) > 500
              THEN VecAdd(VecAdd(v1, "fear", 200), "trust", 100) ELSE v1
    IN IF Get(situation, "social_context", FALSE)
       THEN VecAdd(VecAdd(v2, "intimacy", 100), "respect", 100) ELSE v2

\* max(0, cosine_similarity(a, b)) in thousandths; 0 for a zero operand
Similarity(a, b) ==
    LET d == Dot(a, b)
        mm == MagSq(a) * MagSq(b)
    IN IF mm = 0 \/ d <= 0 THEN 0
       ELSE Min(1000, (d * 100000) \div ISqrt(mm * 10000))

\* lower-cased location names
LowerLocation(location) ==
    CASE location = "Market" -> "market"
      [] location = "Camp" -> "camp"
      [] location = "Unknown" -> "unknown"
      [] location = "Old Town" -> "old town"
      [] OTHER -> location

\* the location types of _calculate_location_bonus a lower-cased name contains
LocationTypes(location) ==
    CASE location = "old town" -> {"town"}
      [] location = "town gate" -> {"town"}
      [] OTHER -> {}

\* MemoryGravity._calculate_location_bonus, in tenths
LocationBonus(memory, situation) ==
    LET current_location == Get(situation, "location", "")
    IN IF current_location = "" THEN 0
       ELSE IF LowerLocation(current_location) = LowerLocation(memory.location) THEN 5
       ELSE IF LocationTypes(LowerLocation(current_location))
                  \cap LocationTypes(LowerLocation(memory.location)) # {} THEN 2
       ELSE 0

\* 'combat' in str(memory.context).lower(): the context is a fixed phrase
\* followed by the location
MentionsCombat(memory) == memory.location \in {"Combat Pit"}

\* pull * MemoryGravity._calculate_context_multiplier
TimesContextMultiplier(pull, memory, situation) ==
    LET p1 == IF Get(situation, "in_combat", FALSE) /\ MentionsCombat(memory)
              THEN (pull * 13) \div 10 ELSE pull
        p2 == IF memory.cascade_type # "None"
                 /\ Get(situation, "emotional_intensity", 0) > 500
              THEN (p1 * 14) \div 10 ELSE p1
    IN IF memory.interaction_number > 0
       THEN (p2 * (100 + Min(10, memory.interaction_number))) \div 100
       ELSE p2

\* MemoryGravity.calculate_pull without a current time (temporal weight 1.0)
CalculatePull(memory, situation) ==
    LET signature == NewVector(memory.emotional_vector)
        similarity == Similarity(signature, ExtractSituationVector(situation))
        base == memory.mass * similarity
        located == (base * (10 + LocationBonus(memory, situation))) \div 10
    IN TimesContextMultiplier(located, memory, situation)

\* the loop of retrieve_memories: the (memory, pull) pairs above the threshold
RECURSIVE MemoryPulls(_, _, _)
MemoryPulls(memories, situation, i) ==
    IF i > Len(memories) THEN <<>>
    ELSE LET pull == CalculatePull(memories[i], situation)
             rest == MemoryPulls(memories, situation, i + 1)
         IN IF pull > PullThreshold
            THEN <<[memory |-> memories[i], pull |-> pull]>> \o rest
            ELSE rest

\* memory_pulls.sort(key=pull, reverse=True): stable, descending
RECURSIVE InsertByPull(_, _)
InsertByPull(sorted, x) ==
    IF sorted = <<>> THEN <<x>>
    ELSE IF Head(sorted).pull >= x.pull
         THEN <<Head(sorted)>> \o InsertByPull(Tail(sorted), x)
         ELSE <<x>> \o sorted

RECURSIVE SortByPull(_, _)
SortByPull(pairs, i) ==
    IF i = 0 THEN <<>> ELSE InsertByPull(SortByPull(pairs, i - 1), pairs[i])

\* retrieve_memories returning the pairs in the order they were found
RetrieveUnsorted(memories, current_situation, max_memories) ==
    IF memories = <<>> THEN <<>>
    ELSE LET memory_pulls == MemoryPulls(memories, current_situation, 1)
         IN SubSeq(memory_pulls, 1, Min(max_memories, Len(memory_pulls)))

\* GravitationalRetrieval.retrieve_memories (max_memories >= 0)
RetrieveMemories(memories, current_situation, max_memories) ==
    IF memories = <<>> THEN <<>>
    ELSE LET memory_pulls == MemoryPulls(memories, current_situation, 1)
             sorted == SortByPull(memory_pulls, Len(memory_pulls))
         IN SubSeq(sorted, 1, Min(max_memories, Len(sorted)))

-----------------------------------------------------------------------------
(* companion_memory.py *)

\* max_count passed to prune_memories
MaxMemories == 5

\* 3% decay per day: the multiplier 0.97 is DecayNum / DecayDen
DecayNum == 97
DecayDen == 100

\* CompanionMemoryManager._init_behavioral_model
InitBehavioralModel ==
    [protector_vs_exploiter |-> 0, consistent_vs_chaotic |-> 0,
     generous_vs_greedy |-> 0, truthful_vs_deceptive |-> 0,
     violent_vs_peaceful |-> 0]

\* CompanionMemoryManager.create_entry_hash
CreateEntryHash(entry) ==
    Get(entry, "date", "") \o "_" \o Get(entry, "time", "") \o "_"
    \o Get(entry, "location", "")

\* the replay test never recognising an entry
NeverProcessed(entry_hash, processed) == FALSE

\* entry_hash in self.processed_entries
AlreadyProcessed(entry_hash, processed) == entry_hash \in processed

\* calculate_relative_day counting every entry after the first
RelativeDayPerEntry(dc, ld, entry) ==
    [day_counter |-> IF ld # <<>> THEN dc + 1 ELSE dc,
     last_date |-> <<Get(entry, "date", "")>>]

\* CompanionMemoryManager.calculate_relative_day: the manager's
\* [day_counter, last_date] afterwards
CalculateRelativeDay(dc, ld, entry) ==
    LET current_date == <<Get(entry, "date", "")>>
    IN IF current_date # ld
       THEN [day_counter |-> IF ld # <<>> THEN dc + 1 ELSE dc,
             last_date |-> current_date]
       ELSE [day_counter |-> dc, last_date |-> ld]

\* is_duplicate_memory comparing the memory identifiers as well
IsDuplicateById(new_memory, existing_memories) ==
    \E i \in DOMAIN existing_memories :
        /\ existing_memories[i].id = new_memory.id
        /\ existing_memories[i].timestamp = new_memory.timestamp
        /\ existing_memories[i].location = new_memory.location

\* is_duplicate_memory with the location test inverted
IsDuplicateOtherLocation(new_memory, existing_memories) ==
    \E i \in DOMAIN existing_memories :
        /\ existing_memories[i].timestamp = new_memory.timestamp
        /\ existing_memories[i].location # new_memory.location
        /\ Abs(existing_memories[i].emotional_velocity
               - new_memory.emotional_velocity) < 1

\* CompanionMemoryManager.is_duplicate_memory
IsDuplicateMemory(new_memory, existing_memories) ==
    \E i \in DOMAIN existing_memories :
        /\ existing_memories[i].timestamp = new_memory.timestamp
        /\ existing_memories[i].location = new_memory.location
        /\ Abs(existing_memories[i].emotional_velocity
               - new_memory.emotional_velocity) < 1

\* decay_rate = 0.97 ** days_passed, in millionths
RECURSIVE DecayRate(_)
DecayRate(days_passed) ==
    IF days_passed = 0 THEN Unit * Unit
    ELSE (DecayRate(days_passed - 1) * DecayNum) \div DecayDen

\* CompanionMemoryManager.apply_emotional_decay.  Each product is rounded to
\* the nearest value of the representation, as a floating-point product is;
\* one unit of an axis stands for the spacing of the representable values.
ApplyEmotionalDecay(emotion_vector, days_passed) ==
    IF days_passed <= 0 THEN emotion_vector
    ELSE [e \in DOMAIN emotion_vector |->
            RoundDiv(emotion_vector[e] * DecayRate(days_passed), Unit * Unit)]

\* the keywords of _update_behavioral_model that occur in a readable action
KeywordsIn(action_text) ==
    CASE action_text = "cast healing magic"  -> {"heal"}
      [] action_text = "offered reassurance" -> {"reassurance"}
      [] action_text = "provided comfort"    -> {"comfort"}
      [] action_text = "performed rescue"    -> {"rescue"}
      [] action_text = "betrayed trust"      -> {"betray", "trust", "betrayed trust"}
      [] action_text = "deceived ally"       -> {"deceived ally"}
      [] OTHER -> {}

AnyWord(action_text, words) == KeywordsIn(action_text) \cap words # {}

\* the nudges of one action in _update_behavioral_model (tenths)
NudgeModel(model, action_text) ==
    [model EXCEPT
       !.protector_vs_exploiter =
           IF AnyWord(action_text, {"protect", "defend", "heal", "rescue"}) THEN @ + 1
           ELSE IF AnyWord(action_text, {"abandon", "betray", "exploit"}) THEN @ - 2
           ELSE @,
       !.consistent_vs_chaotic =
           IF AnyWord(action_text, {"trust", "promise", "reliable"}) THEN @ + 1
           ELSE IF AnyWord(action_text, {"betray", "unpredictable"}) THEN @ - 2
           ELSE @,
       !.generous_vs_greedy =
           IF AnyWord(action_text, {"share", "give", "generous"}) THEN @ + 1
           ELSE IF AnyWord(action_text, {"steal", "hoard", "greedy"}) THEN @ - 2
           ELSE @,
       !.truthful_vs_deceptive =
           IF AnyWord(action_text, {"honest", "truth", "confide", "admitted", "shared secret"})
           THEN @ + 1
           ELSE IF AnyWord(action_text, {"lied", "betrayed trust"}) THEN @ - 2
           ELSE @,
       !.violent_vs_peaceful =
           IF AnyWord(action_text, {"peaceful", "calm", "gentle", "comfort", "reassurance"})
           THEN @ + 1
           ELSE IF AnyWord(action_text, {"violent", "aggressive", "cruel", "brutal"}) THEN @ - 2
           ELSE @]

RECURSIVE NudgeAll(_, _, _)
NudgeAll(model, actions, i) ==
    IF i > Len(actions) THEN model
    ELSE NudgeAll(NudgeModel(model, actions[i].readable), actions, i + 1)

\* _update_behavioral_model without its closing clamp
UpdateBehavioralModelUnclamped(model, actions) == NudgeAll(model, actions, 1)

\* CompanionMemoryManager._update_behavioral_model
UpdateBehavioralModel(model, actions) ==
    LET nudged == NudgeAll(model, actions, 1)
    IN [k \in DOMAIN nudged |-> Max(-10, Min(10, nudged[k]))]

\* The emotional state after an accepted memory: decay since the last
\* memory of the list, then the delta added axis by axis
RECURSIVE AddDelta(_, _, _)
AddDelta(state, delta, i) ==
    IF i > Len(Emotions) THEN state
    ELSE AddDelta(VecAdd(state, Emotions[i], delta[Emotions[i]]), delta, i + 1)

DecayedState(state, memories, relative_day) ==
    IF memories # <<>> /\ "relative_day" \in DOMAIN memories[Len(memories)]
    THEN ApplyEmotionalDecay(state, relative_day - memories[Len(memories)].relative_day)
    ELSE state

\* One iteration of the loop over party_npcs in process_journal_entry.
\* (CHOOSE y \in {F(x) : x \in {e}} : TRUE is F(e) with e evaluated once.)
\* m is the mutable state the loop works on:
\*   [cr, mem, emo, beh, ic, created, checks]
\* (checks records, per companion, the batch handed to check_crystallization
\* and what it returned)
ProcessNpc(m, npc_name, summary, location, original_timestamp, relative_day) ==
    IF ~NameInText(summary, npc_name) THEN m
    ELSE
      LET m1 == [m EXCEPT !.ic = Put(@, npc_name, Get(@, npc_name, 0) + 1)]
          Accepted(m2, actions, memory) ==
              LET emo == m2.emo
                  mem == m2.mem
                  decayed == DecayedState(emo[npc_name], mem[npc_name], relative_day)
                  state == AddDelta(decayed, memory.emotional_vector, 1)
                  beh == Touch(m2.beh, npc_name, InitBehavioralModel)
              IN [m2 EXCEPT
                    !.emo = Put(emo, npc_name, state),
                    !.beh = Put(beh, npc_name,
                                UpdateBehavioralModel(beh[npc_name], actions)),
                    !.mem = Put(mem, npc_name,
                                PruneMemories(Append(mem[npc_name], memory),
                                              MaxMemories)),
                    !.created = Put(@, npc_name, memory)]
          Checked(actions, emo, mem, r) ==
              LET m2 == [m1 EXCEPT !.emo = emo, !.mem = mem, !.cr = r.cr,
                                   !.checks = Put(@, npc_name,
                                                  [actions |-> actions, memory |-> r.memory])]
              IN IF r.memory = <<>> THEN m2
                 ELSE LET memory == Put(r.memory[1], "relative_day", relative_day)
                      IN IF IsDuplicateMemory(memory, mem[npc_name]) THEN m2
                         ELSE Accepted(m2, actions, memory)
          Parsed(actions) ==
              IF actions = <<>> THEN m1
              ELSE LET emo == Touch(m1.emo, npc_name, ZeroVector)
                       mem == Touch(m1.mem, npc_name, <<>>)
                   IN CHOOSE y \in {Checked(actions, emo, mem, r) :
                                      r \in {CheckCrystallization(m1.cr, actions, npc_name,
                                                 location, original_timestamp, mem[npc_name])}} : TRUE
      IN CHOOSE y \in {Parsed(actions) : actions \in {ParseEntry(summary, npc_name)}} : TRUE

\* the loop of process_journal_entry returning from inside its first iteration
ProcessNpcsReturnInLoop(m, party_npcs, i, summary, location, original_timestamp, relative_day) ==
    IF i > Len(party_npcs) THEN m
    ELSE ProcessNpc(m, party_npcs[i], summary, location, original_timestamp,
                    relative_day)

RECURSIVE ProcessNpcs(_, _, _, _, _, _, _)
ProcessNpcs(m, party_npcs, i, summary, location, original_timestamp, relative_day) ==
    IF i > Len(party_npcs) THEN m
    ELSE ProcessNpcs(ProcessNpc(m, party_npcs[i], summary, location,
                                original_timestamp, relative_day),
                     party_npcs, i + 1, summary, location, original_timestamp,
                     relative_day)

-----------------------------------------------------------------------------
(* The session: construction and the calls made on it *)

NoCall == [op |-> "none"]

\* crystallization_threshold: 0.35 from the constructor, or the value
\* load_configuration() reads from memory_config.json in append mode
DefaultThreshold == 350
ConfigThresholds == {350, 500}

\* CompanionMemoryManager.__init__ with no memory files on disk.  Refresh
\* mode clears everything; append mode loads the configuration file.
Init ==
    /\ \/ mode = "refresh" /\ crystallization_threshold = DefaultThreshold
       \/ mode = "append" /\ crystallization_threshold \in ConfigThresholds
    /\ memory_counter = 0
    /\ npc_interaction_counts = EmptyDict
    /\ npc_memories = EmptyDict
    /\ npc_emotional_states = EmptyDict
    /\ npc_behavioral_models = EmptyDict
    /\ interaction_counts = EmptyDict
    /\ day_counter = 0
    /\ last_date = <<>>
    /\ processed_entries = {}
    /\ call = NoCall
    /\ calls = 0
    /\ accepted_log = EmptyDict
    /\ date_log = <<>>
    /\ vec = ZeroVector

RECURSIVE LogCreated(_, _, _)
LogCreated(log, created, party_npcs) ==
    IF party_npcs = <<>> THEN log
    ELSE LET n == Head(party_npcs)
             rest == LogCreated(log, created, Tail(party_npcs))
         IN IF n \in DOMAIN created /\ ~(\E i \in DOMAIN Tail(party_npcs) : Tail(party_npcs)[i] = n)
            THEN Put(rest, n, Append(Get(rest, n, <<>>), created[n]))
            ELSE rest

\* The loop of process_journal_entry over party_npcs, run from the present
\* state: the loop state after the last companion (the state it starts from
\* when the entry has no summary or no companions are named)
EntryOutcome(journal_entry, party_npcs) ==
    LET rd == CalculateRelativeDay(day_counter, last_date, journal_entry)
        relative_day == rd.day_counter
        location == Get(journal_entry, "location", "Unknown")
        original_timestamp ==
            Get(journal_entry, "date", "") \o " " \o Get(journal_entry, "time", "")
        summary == Get(journal_entry, "summary", <<>>)
        m0 == [cr |-> [threshold |-> crystallization_threshold,
                       memory_counter |-> memory_counter,
                       npc_interaction_counts |-> npc_interaction_counts],
               mem |-> npc_memories, emo |-> npc_emotional_states,
               beh |-> npc_behavioral_models, ic |-> interaction_counts,
               created |-> EmptyDict, checks |-> EmptyDict]
    IN IF summary = <<>> \/ party_npcs = <<>> THEN m0
       ELSE ProcessNpcs(m0, party_npcs, 1, summary, location,
                        original_timestamp, relative_day)

\* CompanionMemoryManager.process_journal_entry
ProcessJournalEntry(journal_entry, party_npcs) ==
    LET entry_hash == CreateEntryHash(journal_entry)
        rd == CalculateRelativeDay(day_counter, last_date, journal_entry)
        mm == EntryOutcome(journal_entry, party_npcs)
    IN \E m \in {mm} :
       /\ calls' = calls + 1
       /\ UNCHANGED <<mode, crystallization_threshold, vec>>
       /\ IF AlreadyProcessed(entry_hash, processed_entries)
          THEN /\ call' = [op |-> "process_journal_entry", entry |-> journal_entry,
                           party_npcs |-> party_npcs, seen |-> TRUE,
                           checks |-> EmptyDict, result |-> EmptyDict]
               /\ UNCHANGED <<memory_counter, npc_interaction_counts, npc_memories,
                              npc_emotional_states, npc_behavioral_models,
                              interaction_counts, day_counter, last_date,
                              processed_entries, accepted_log, date_log>>
          ELSE /\ processed_entries' = processed_entries \cup {entry_hash}
               /\ day_counter' = rd.day_counter
               /\ last_date' = rd.last_date
               /\ memory_counter' = m.cr.memory_counter
               /\ npc_interaction_counts' = m.cr.npc_interaction_counts
               /\ npc_memories' = m.mem
               /\ npc_emotional_states' = m.emo
               /\ npc_behavioral_models' = m.beh
               /\ interaction_counts' = m.ic
               /\ accepted_log' = LogCreated(accepted_log, m.created, party_npcs)
               /\ date_log' = Append(date_log, Get(journal_entry, "date", ""))
               /\ call' = [op |-> "process_journal_entry", entry |-> journal_entry,
                           party_npcs |-> party_npcs, seen |-> FALSE,
                           checks |-> m.checks, result |-> m.created]

-----------------------------------------------------------------------------
(* Inputs *)

Text_saved == <<Name("Kira"), Phrase("saved from"), Name("Elen")>>
Text_stood == <<Name("Kira"), Phrase("stood between")>>
Text_reassured == <<Name("Kira"), Phrase("offered reassurance")>>
Text_betrayed == <<Name("Kira"), Phrase("betrayed by")>>
Text_far == <<Name("Kira"), Filler(150), Phrase("cast cure wounds"), Embedded("Elen")>>

JournalEntries ==
    { [date |-> "D1", time |-> "08", summary |-> Text_saved],
      [date |-> "D1", time |-> "08", location |-> "Unknown", summary |-> Text_saved],
      [date |-> "D1", time |-> "08", summary |-> Text_betrayed],
      [date |-> "D2", time |-> "08", location |-> "Unknown", summary |-> Text_stood],
      [date |-> "D1", time |-> "20", location |-> "Market", summary |-> Text_reassured],
      [date |-> "D2", time |-> "20", location |-> "Market", summary |-> <<>>],
      [date |-> "D3", time |-> "20", location |-> "Market"],
      [time |-> "08", location |-> "Market", summary |-> Text_far] }

PartyLists == { <<>>, <<"Kira">>, <<"Elen", "Kira">> }

Next ==
    /\ calls < MaxCalls
    /\ \E journal_entry \in JournalEntries, party_npcs \in PartyLists :
          ProcessJournalEntry(journal_entry, party_npcs)

Spec == Init /\ [][Next]_vars

-----------------------------------------------------------------------------
(* A long refresh run: one journal entry per call, each with a time of its *)
(* own, for a fixed party.                                                 *)

Text_cure == <<Name("Kira"), Phrase("cast cure wounds")>>
Text_grief == <<Name("Kira"), Phrase("comforted in grief"), Name("Elen")>>

LongEntries(n) ==
    { [date |-> "D1", time |-> ToString(n), location |-> "Market", summary |-> Text_saved],
      [date |-> "D1", time |-> ToString(n), location |-> "Market", summary |-> Text_cure],
      [date |-> "D2", time |-> ToString(n), location |-> "Camp", summary |-> Text_betrayed],
      [date |-> "D2", time |-> ToString(n), location |-> "Camp", summary |-> Text_grief] }

LongParty == <<"Kira", "Elen">>

InitLong == Init /\ mode = "refresh"

NextLong ==
    /\ calls < MaxLongCalls
    /\ \E journal_entry \in LongEntries(calls + 1) :
          ProcessJournalEntry(journal_entry, LongParty)

SpecLong == InitLong /\ [][NextLong]_vars

-----------------------------------------------------------------------------
(* A free-standing EmotionalVector receiving add() and set() calls *)

AxisNames == EmotionSet \cup {"anger"}
AxisValues == {-1300, 100, 400, 2000}

VectorAdd(emotion, value) ==
    /\ calls < MaxVecCalls
    /\ vec' = VecAdd(vec, emotion, value)
    /\ call' = [op |-> "add", emotion |-> emotion, value |-> value]
    /\ calls' = calls + 1
    /\ UNCHANGED <<mode, session, accepted_log, date_log>>

VectorSet(emotion, value) ==
    /\ calls < MaxVecCalls
    /\ vec' = VecSet(vec, emotion, value)
    /\ call' = [op |-> "set", emotion |-> emotion, value |-> value]
    /\ calls' = calls + 1
    /\ UNCHANGED <<mode, session, accepted_log, date_log>>

\* days handed to apply_emotional_decay: none, a negative number, one day
\* and a long absence
DecayDays == {-1, 0, 1, 60}

VectorDecay(days_passed) ==
    /\ calls < MaxVecCalls
    /\ vec' = ApplyEmotionalDecay(vec, days_passed)
    /\ call' = [op |-> "apply_emotional_decay", days_passed |-> days_passed]
    /\ calls' = calls + 1
    /\ UNCHANGED <<mode, session, accepted_log, date_log>>

NextVector ==
    \/ \E emotion \in AxisNames, value \in AxisValues : VectorAdd(emotion, value)
    \/ \E emotion \in AxisNames, value \in AxisValues : VectorSet(emotion, value)
    \/ \E days_passed \in DecayDays : VectorDecay(days_passed)

InitVector == Init /\ mode = "refresh"

SpecVector == InitVector /\ [][NextVector]_vars

-----------------------------------------------------------------------------
(* A session that is also cleared: journal entries with fixed fingerprints, *)
(* so that an entry can be replayed after clear_npc_memories.                *)

\* del d[k] guarded by k in d
Remove(d, k) == [x \in DOMAIN d \ {k} |-> d[x]]

\* CompanionMemoryManager.clear_npc_memories (the memory file apart)
ClearNpcMemories(npc_name) ==
    /\ calls < MaxSessionCalls
    /\ npc_memories' = Remove(npc_memories, npc_name)
    /\ npc_emotional_states' = Remove(npc_emotional_states, npc_name)
    /\ npc_behavioral_models' = Remove(npc_behavioral_models, npc_name)
    /\ interaction_counts' = Remove(interaction_counts, npc_name)
    /\ call' = [op |-> "clear_npc_memories", npc_name |-> npc_name]
    /\ calls' = calls + 1
    /\ UNCHANGED <<mode, crystallization_threshold, memory_counter,
                   npc_interaction_counts, day_counter, last_date,
                   processed_entries, accepted_log, date_log, vec>>

\* d[k] on a defaultdict with no test before it: a missing key is created
IndexUnguarded(d, k, default) == Touch(d, k, default)

\* d[k] on a defaultdict reached only under "k in d": the mapping afterwards
IndexGuarded(d, k, default) == IF k \in DOMAIN d THEN Touch(d, k, default) ELSE d

\* CompanionMemoryManager.get_relevant_memories
GetRelevantMemories(npc_name, current_situation, max_memories) ==
    LET memories == Get(npc_memories, npc_name, <<>>)
        relevant == RetrieveMemories(memories, current_situation, max_memories)
    IN /\ npc_memories' = IndexGuarded(npc_memories, npc_name, <<>>)
       /\ call' = [op |-> "get_relevant_memories", npc_name |-> npc_name,
                   current_situation |-> current_situation,
                   max_memories |-> max_memories,
                   result |-> [i \in DOMAIN relevant |-> relevant[i].memory]]
       /\ UNCHANGED <<mode, crystallization_threshold, memory_counter,
                      npc_interaction_counts, npc_emotional_states,
                      npc_behavioral_models, interaction_counts, day_counter,
                      last_date, processed_entries, calls, accepted_log,
                      date_log, vec>>

\* CompanionMemoryManager._determine_relationship for a state that exists
RelationshipsOf(state) ==
    (IF state["trust"] > 500 THEN <<"Trusted Ally">>
     ELSE IF state["trust"] > 300 THEN <<"Friend">>
     ELSE IF state["trust"] < -300 THEN <<"Distrusted">> ELSE <<>>)
    \o (IF state["respect"] > 400 THEN <<"Respected">>
        ELSE IF state["respect"] < -300 THEN <<"Disrespected">> ELSE <<>>)
    \o (IF state["intimacy"] > 500 THEN <<"Close Bond">>
        ELSE IF state["intimacy"] > 300 THEN <<"Growing Closeness">> ELSE <<>>)
    \o (IF state["fear"] > 400 THEN <<"Feared">> ELSE <<>>)
    \o (IF state["power"] > 400 THEN <<"Leader">>
        ELSE IF state["power"] < -400 THEN <<"Follower">> ELSE <<>>)

\* _determine_relationship with the default label for any empty list
DetermineRelationshipAlwaysNeutral(states, npc_name) ==
    IF npc_name \notin DOMAIN states THEN <<"Neutral">>
    ELSE LET relationships == RelationshipsOf(states[npc_name])
         IN IF relationships # <<>> THEN relationships ELSE <<"Neutral">>

\* _determine_relationship appending 'Neutral' to every list
DetermineRelationshipAppendNeutral(states, npc_name) ==
    IF npc_name \notin DOMAIN states THEN <<"Acquaintance">>
    ELSE Append(RelationshipsOf(states[npc_name]), "Neutral")

\* CompanionMemoryManager._determine_relationship
DetermineRelationship(states, npc_name) ==
    IF npc_name \notin DOMAIN states THEN <<"Acquaintance">>
    ELSE LET relationships == RelationshipsOf(states[npc_name])
         IN IF relationships # <<>> THEN relationships ELSE <<"Neutral">>

\* max(memories, key=emotional_velocity): the first of the strongest
RECURSIVE Strongest(_, _)
Strongest(memories, i) ==
    IF i = 1 THEN memories[1]
    ELSE LET best == Strongest(memories, i - 1)
         IN IF memories[i].emotional_velocity > best.emotional_velocity
            THEN memories[i] ELSE best

\* CompanionMemoryManager.get_npc_profile
GetNpcProfile(npc_name) ==
    LET states == IndexGuarded(npc_emotional_states, npc_name, ZeroVector)
        memories == IndexGuarded(npc_memories, npc_name, <<>>)
        profile ==
            [name |-> npc_name,
             total_interactions |-> Get(interaction_counts, npc_name, 0),
             core_memories |-> Len(Get(npc_memories, npc_name, <<>>)),
             emotional_state |-> IF npc_name \in DOMAIN npc_emotional_states
                                 THEN states[npc_name] ELSE EmptyDict,
             behavioral_model |-> Get(npc_behavioral_models, npc_name, EmptyDict),
             relationship_status |-> DetermineRelationship(states, npc_name),
             strongest_memory |->
                 IF npc_name \in DOMAIN npc_memories /\ memories[npc_name] # <<>>
                 THEN <<Strongest(memories[npc_name], Len(memories[npc_name]))>>
                 ELSE <<>>]
    IN /\ npc_emotional_states' = states
       /\ npc_memories' = memories
       /\ call' = [op |-> "get_npc_profile", npc_name |-> npc_name,
                   result |-> profile]
       /\ UNCHANGED <<mode, crystallization_threshold, memory_counter,
                      npc_interaction_counts, npc_behavioral_models,
                      interaction_counts, day_counter, last_date,
                      processed_entries, calls, accepted_log, date_log, vec>>

\* situation descriptors handed to get_relevant_memories
Situations ==
    { EmptyDict,
      [action_type |-> "heal", location |-> "market"],
      [emotions |-> [trust |-> -600, respect |-> -400], emotional_intensity |-> 800,
       location |-> "Old Town"],
      [action_type |-> "talk", danger_level |-> 900, social_context |-> TRUE,
       in_combat |-> TRUE, emotional_intensity |-> 800],
      [emotions |-> [trust |-> -600, respect |-> -400], action_type |-> "heal"] }

MaxMemoriesAsked == {0, 1, 3}

SessionEntries ==
    { [date |-> "D1", time |-> "08", location |-> "Market", summary |-> Text_saved],
      [date |-> "D1", time |-> "20", location |-> "Market", summary |-> Text_cure],
      [date |-> "D2", time |-> "08", location |-> "Camp", summary |-> Text_betrayed],
      [date |-> "D2", time |-> "20", location |-> "Camp", summary |-> Text_grief] }

\* the names a caller asks about: two companions of the party and a stranger
QueryNames == {"Kira", "Elen", "Zed"}

SessionProcess ==
    /\ calls < MaxSessionCalls
    /\ \E journal_entry \in SessionEntries :
          ProcessJournalEntry(journal_entry, LongParty)

NextSession ==
    \/ SessionProcess
    \/ \E npc_name \in QueryNames : ClearNpcMemories(npc_name)
    \/ \E npc_name \in QueryNames : GetNpcProfile(npc_name)
    \/ \E npc_name \in QueryNames, current_situation \in Situations,
          max_memories \in MaxMemoriesAsked :
             GetRelevantMemories(npc_name, current_situation, max_memories)

InitSession == Init /\ mode = "refresh"

SpecSession == InitSession /\ [][NextSession]_vars

-----------------------------------------------------------------------------
(* A free-standing ActionParser and MemoryCrystallizer receiving calls *)

Text_deceived == <<Name("Kira"), Phrase("deceived us")>>
Text_mocked == <<Name("Kira"), Phrase("mocked")>>
Text_ridiculed == <<Name("Kira"), Phrase("deceived us"), Phrase("mocked")>>
Text_critical == <<Name("Kira"), Phrase("landed a critical hit")>>
Text_twice == <<Name("KIRA"), Phrase("mocked"), Phrase("cast cure wounds"),
                Name("Kira"), Phrase("mocked")>>

ParserTexts ==
    {Text_saved, Text_cure, Text_critical, Text_reassured, Text_deceived,
     Text_mocked, Text_ridiculed, Text_far, Text_twice}

\* list(set(...)): the set in one of the orders its iteration can take
ListsOfSet(S) ==
    {q \in [1..Cardinality(S) -> S] : \A x \in S : \E i \in DOMAIN q : q[i] = x}

\* ActionParser.parse_entry called on its own
ParseEntryCall(text, npc_name) ==
    /\ calls < MaxParserCalls
    /\ call' = [op |-> "parse_entry", text |-> text, npc_name |-> npc_name,
                result |-> ParseEntry(text, npc_name)]
    /\ calls' = calls + 1
    /\ UNCHANGED <<mode, session, accepted_log, date_log, vec>>

\* MemoryCrystallizer.check_crystallization called on its own; the memory it
\* returns carries its trigger actions as a list
CheckCrystallizationCall(actions, npc_name, location, timestamp, existing_memories) ==
    /\ calls < MaxParserCalls
    /\ \E r \in {CheckCrystallization(
                     [threshold |-> crystallization_threshold,
                      memory_counter |-> memory_counter,
                      npc_interaction_counts |-> npc_interaction_counts],
                     actions, npc_name, location, timestamp, existing_memories)} :
          /\ memory_counter' = r.cr.memory_counter
          /\ npc_interaction_counts' = r.cr.npc_interaction_counts
          /\ \E result \in
                IF r.memory = <<>> THEN {<<>>}
                ELSE {<<[r.memory[1] EXCEPT !.trigger_actions = listed]>> :
                         listed \in ListsOfSet(r.memory[1].trigger_actions)} :
                call' = [op |-> "check_crystallization", actions |-> actions,
                         npc_name |-> npc_name, location |-> location,
                         timestamp |-> timestamp,
                         existing_memories |-> existing_memories,
                         result |-> result]
    /\ calls' = calls + 1
    /\ UNCHANGED <<mode, crystallization_threshold, npc_memories,
                   npc_emotional_states, npc_behavioral_models,
                   interaction_counts, day_counter, last_date,
                   processed_entries, accepted_log, date_log, vec>>

\* memory histories handed to check_crystallization: none, or the memory the
\* call before returned
Histories ==
    {<<>>} \cup (IF call.op = "check_crystallization" /\ call.result # <<>>
                 THEN {<<[call.result[1] EXCEPT
                             !.trigger_actions = {@[i] : i \in DOMAIN @}]>>}
                 ELSE {})

NextParser ==
    \/ \E text \in ParserTexts, npc_name \in {"Kira", "Elen"} :
          ParseEntryCall(text, npc_name)
    \/ \E text \in ParserTexts, existing_memories \in Histories :
          CheckCrystallizationCall(ParseEntry(text, "Kira"), "Kira", "Market",
                                   "D1 08", existing_memories)

InitParser == Init /\ mode = "refresh"

SpecParser == InitParser /\ [][NextParser]_vars

-----------------------------------------------------------------------------
(* A session whose memory lists are handed to detect_memory_chains *)

\* the inner loop of detect_memory_chains from position j on: the chain and
\* the identifiers used when it ends
RECURSIVE ChainFrom(_, _, _, _, _, _)
ChainFrom(memories, j, chain, used_memories, current_vector, max_chain_length) ==
    IF j > Len(memories) THEN [chain |-> chain, used |-> used_memories]
    ELSE IF memories[j].id \in used_memories
         THEN ChainFrom(memories, j + 1, chain, used_memories, current_vector,
                        max_chain_length)
    ELSE LET other_vector == NewVector(memories[j].emotional_vector)
         IN IF CosGreater(current_vector, other_vector, 5)
            THEN LET longer == Append(chain, memories[j])
                     used == used_memories \cup {memories[j].id}
                 IN IF Len(longer) >= max_chain_length
                    THEN [chain |-> longer, used |-> used]
                    ELSE ChainFrom(memories, j + 1, longer, used, other_vector,
                                   max_chain_length)
            ELSE ChainFrom(memories, j + 1, chain, used_memories, current_vector,
                           max_chain_length)

\* the outer loop of detect_memory_chains from position i on
RECURSIVE ChainsFrom(_, _, _, _, _)
ChainsFrom(memories, i, chains, used_memories, max_chain_length) ==
    IF i > Len(memories) THEN chains
    ELSE IF memories[i].id \in used_memories
         THEN ChainsFrom(memories, i + 1, chains, used_memories, max_chain_length)
    ELSE LET r == ChainFrom(memories, i + 1, <<memories[i]>>,
                            used_memories \cup {memories[i].id},
                            NewVector(memories[i].emotional_vector),
                            max_chain_length)
         IN ChainsFrom(memories, i + 1,
                       IF Len(r.chain) > 1 THEN Append(chains, r.chain) ELSE chains,
                       r.used, max_chain_length)

\* GravitationalRetrieval.detect_memory_chains
DetectMemoryChains(memories, max_chain_length) ==
    ChainsFrom(memories, 1, <<>>, {}, max_chain_length)

ChainLengths == {1, 2, 3}

\* detect_memory_chains called on the memory list of a companion
DetectMemoryChainsCall(npc_name, max_chain_length) ==
    /\ npc_name \in DOMAIN npc_memories
    /\ call' = [op |-> "detect_memory_chains",
                memories |-> npc_memories[npc_name],
                max_chain_length |-> max_chain_length,
                result |-> DetectMemoryChains(npc_memories[npc_name], max_chain_length)]
    /\ UNCHANGED <<mode, session, calls, accepted_log, date_log, vec>>

ChainsProcess ==
    /\ calls < MaxChainCalls
    /\ \E journal_entry \in SessionEntries :
          ProcessJournalEntry(journal_entry, LongParty)

NextChains ==
    \/ ChainsProcess
    \/ \E npc_name \in {"Kira", "Elen"}, max_chain_length \in ChainLengths :
          DetectMemoryChainsCall(npc_name, max_chain_length)

InitChains == Init /\ mode = "refresh"

SpecChains == InitChains /\ [][NextChains]_vars

-----------------------------------------------------------------------------
(* Properties *)

IsProcess(c) == c.op = "process_journal_entry"

\* C1 (idempotent ingestion).  A call of process_journal_entry whose
\* fingerprint (date, time, location) is already in the processed set returns
\* an empty mapping and changes no part of the session state; and every call
\* leaves its fingerprint in the set, so an immediate replay is such a call.
C1_IdempotentIngestion ==
    [][IsProcess(call') =>
          /\ CreateEntryHash(call'.entry) \in processed_entries'
          /\ (CreateEntryHash(call'.entry) \in processed_entries
                => call'.result = EmptyDict /\ UNCHANGED <<session, accepted_log>>)]_vars

\* A replay of an entry that created a memory for Kira the first time.
C1_Witness ==
    /\ IsProcess(call) /\ call.seen
    /\ call.party_npcs = <<"Kira">>
    /\ Get(call.entry, "summary", <<>>) = Text_saved
    /\ "Kira" \in DOMAIN npc_memories /\ Len(npc_memories["Kira"]) = 1

\* C2 (bounded emotional state).  After any sequence of calls from an empty
\* session every companion's running emotional state has trust, power and
\* respect in [-1, 1] and intimacy and fear in [0, 1].
C2_EmotionalStateBounded ==
    \A n \in DOMAIN npc_emotional_states :
        LET v == npc_emotional_states[n]
        IN /\ v["trust"] >= -1000 /\ v["trust"] <= 1000
           /\ v["power"] >= -1000 /\ v["power"] <= 1000
           /\ v["respect"] >= -1000 /\ v["respect"] <= 1000
           /\ v["intimacy"] >= 0 /\ v["intimacy"] <= 1000
           /\ v["fear"] >= 0 /\ v["fear"] <= 1000

\* Kira's trust sits at the upper bound after a decay has been applied.
C2_Witness ==
    /\ "Kira" \in DOMAIN npc_emotional_states
    /\ npc_emotional_states["Kira"]["trust"] = 1000
    /\ npc_emotional_states["Kira"]["intimacy"] % 100 # 0
    /\ day_counter >= 1

C3_Lo(e) == IF e \in {"intimacy", "fear"} THEN 0 ELSE -1000
C3_Hi(e) == 1000
C3_Clamped(e, v) ==
    IF v < C3_Lo(e) THEN C3_Lo(e) ELSE IF v > C3_Hi(e) THEN C3_Hi(e) ELSE v
C3_Known == {"trust", "power", "respect", "intimacy", "fear"}

\* C3 (clamping invariant).  After each add(axis, v) or set(axis, v) every
\* axis lies within its declared range; set leaves the axis at v clamped to
\* its range and every other axis as it was; a call naming an unknown axis
\* changes nothing.
C3_VectorClamped ==
    [][call'.op \in {"add", "set"} =>
          /\ \A e \in C3_Known : vec'[e] >= C3_Lo(e) /\ vec'[e] <= C3_Hi(e)
          /\ call'.emotion \notin C3_Known => vec' = vec
          /\ (call'.op = "set" /\ call'.emotion \in C3_Known) =>
                /\ vec'[call'.emotion] = C3_Clamped(call'.emotion, call'.value)
                /\ \A e \in C3_Known \ {call'.emotion} : vec'[e] = vec[e]]_vars

\* set("intimacy", -1.3) has left intimacy at 0 and trust where an add put it.
C3_Witness ==
    /\ call.op = "set" /\ call.emotion = "intimacy" /\ call.value = -1300
    /\ vec["intimacy"] = 0 /\ vec["trust"] = 400

C5_CapacityBound ==
    \A n \in DOMAIN npc_memories : Len(npc_memories[n]) <= 5

\* Six memories were accepted for Kira and five are held.
C5_Witness ==
    /\ "Kira" \in DOMAIN accepted_log /\ Len(accepted_log["Kira"]) >= 6
    /\ Len(npc_memories["Kira"]) = 5

C6_Score(m) == m.emotional_velocity * m.decay_resistance
C6_Set(memories) == {memories[i] : i \in DOMAIN memories}

\* C6 (pruning keeps the strongest).  When a call accepts a memory for a
\* companion, a list that holds at most 5 entries with it is the old list with
\* the memory appended; a list that would hold 6 keeps exactly 5 of the 6, and
\* the one discarded has a velocity x decay_resistance no higher than any of
\* the 6.  Over the whole run the entries held are entries that were accepted,
\* and no accepted entry that is not held scores higher than one that is.
C6_KeepsStrongest ==
    [][IsProcess(call') =>
          /\ \A n \in DOMAIN call'.result :
                LET old == Get(npc_memories, n, <<>>)
                    six == Append(old, call'.result[n])
                    kept == npc_memories'[n]
                IN IF Len(six) <= 5 THEN kept = six
                   ELSE /\ Len(kept) = 5
                        /\ \E j \in DOMAIN six :
                              /\ C6_Set(kept) = {six[i] : i \in DOMAIN six \ {j}}
                              /\ \A i \in DOMAIN six : C6_Score(six[j]) <= C6_Score(six[i])
          /\ \A n \in DOMAIN accepted_log' :
                LET all == C6_Set(accepted_log'[n])
                    held == C6_Set(npc_memories'[n])
                IN /\ held \subseteq all
                   /\ Cardinality(held) = Min(5, Cardinality(all))
                   /\ \A d \in all \ held : \A k \in held : C6_Score(d) <= C6_Score(k)]_vars

\* Six memories were accepted for Kira; the sixth is held and an earlier,
\* weaker one was discarded.
C6_Witness ==
    /\ "Kira" \in DOMAIN accepted_log /\ Len(accepted_log["Kira"]) = 6
    /\ accepted_log["Kira"][6] \in C6_Set(npc_memories["Kira"])
    /\ \E i \in 1..5 :
          /\ accepted_log["Kira"][i] \notin C6_Set(npc_memories["Kira"])
          /\ C6_Score(accepted_log["Kira"][i]) < C6_Score(accepted_log["Kira"][6])

\* a memory of the list with the timestamp and location of memory and a
\* velocity less than 0.01 away
C7_Matches(memory, list) ==
    \E i \in DOMAIN list :
        /\ list[i].timestamp = memory.timestamp
        /\ list[i].location = memory.location
        /\ list[i].emotional_velocity - memory.emotional_velocity < 1
        /\ memory.emotional_velocity - list[i].emotional_velocity < 1

C8_NoDuplicates ==
    mode = "refresh" =>
        \A n \in DOMAIN npc_memories :
            \A i, j \in DOMAIN npc_memories[n] :
                (/\ i # j
                 /\ npc_memories[n][i].timestamp = npc_memories[n][j].timestamp
                 /\ npc_memories[n][i].location = npc_memories[n][j].location)
                    => npc_memories[n][i].emotional_velocity
                          # npc_memories[n][j].emotional_velocity

\* In a refresh-mode session a second entry for the timestamp and location of
\* the memories Kira and Elen hold crystallized the same velocity for both,
\* and both lists still hold one memory.
C8_Witness ==
    /\ mode = "refresh"
    /\ IsProcess(call) /\ ~call.seen
    /\ \A n \in {"Kira", "Elen"} :
          /\ n \in DOMAIN call.checks /\ call.checks[n].memory # <<>>
          /\ n \in DOMAIN npc_memories /\ Len(npc_memories[n]) = 1
          /\ npc_memories[n][1].timestamp = call.checks[n].memory[1].timestamp
          /\ npc_memories[n][1].location = call.checks[n].memory[1].location
          /\ npc_memories[n][1].emotional_velocity
                = call.checks[n].memory[1].emotional_velocity
          /\ npc_memories[n][1].id # call.checks[n].memory[1].id

C9_Changes(dates) ==
    Cardinality({i \in 1..(Len(dates) - 1) : dates[i] # dates[i + 1]})

\* C9 (relative day tracking).  The day counter starts at 0; a skipped replay
\* leaves it alone; the first processed entry does not increment it; each
\* later non-duplicate entry adds 1 if its date differs from the date of the
\* entry processed before it and 0 otherwise; it never decreases and always
\* equals the number of date changes between consecutive processed entries.
C9_RelativeDay ==
    /\ day_counter = 0
    /\ [][IsProcess(call') =>
            /\ day_counter' >= day_counter
            /\ day_counter' = C9_Changes(date_log')
            /\ call'.seen => day_counter' = day_counter
            /\ ~call'.seen =>
                  IF date_log = <<>> THEN day_counter' = 0
                  ELSE IF Get(call'.entry, "date", "") # date_log[Len(date_log)]
                       THEN day_counter' = day_counter + 1
                       ELSE day_counter' = day_counter]_vars

\* Three entries were processed, the second on the date of the first and the
\* third on another date: one day has passed.
C9_Witness ==
    /\ Len(date_log) = 3
    /\ date_log[1] = date_log[2] /\ date_log[2] # date_log[3]
    /\ day_counter = 1

C10_Degenerate(c) ==
    \/ Get(c.entry, "summary", <<>>) = <<>>
    \/ c.party_npcs = <<>>

\* C10 (degenerate input is a no-op).  A call whose entry has no summary, or
\* an empty one, or that names no companions, returns an empty mapping and
\* leaves the whole session state unchanged: processed set, day counter and
\* last-seen date included.
C10_DegenerateNoOp ==
    [][(IsProcess(call') /\ C10_Degenerate(call')) =>
          /\ call'.result = EmptyDict
          /\ UNCHANGED session]_vars

C11_Names(party_npcs) == {party_npcs[i] : i \in DOMAIN party_npcs}

\* every ordering of a list of companion names
C11_Orderings(party_npcs) ==
    {q \in [DOMAIN party_npcs -> C11_Names(party_npcs)] :
        \A i \in DOMAIN party_npcs :
            Cardinality({j \in DOMAIN q : q[j] = party_npcs[i]})
               = Cardinality({j \in DOMAIN party_npcs : party_npcs[j] = party_npcs[i]})}

C11_Entry(d, n) == IF n \in DOMAIN d THEN <<d[n]>> ELSE <<>>

C11_NoId(memory) == [memory EXCEPT !.id = ""]

C11_NoIds(d, n) ==
    IF n \in DOMAIN d THEN <<[i \in DOMAIN d[n] |-> C11_NoId(d[n][i])]>> ELSE <<>>

\* C11 as stated (companion order independence).  For an entry processed for
\* a list of companions, each companion's returned memory, with its
\* identifier and interaction index, and its resulting emotional state,
\* behavioural model and memory list are what any other ordering of the list
\* would have produced.
C11_OrderIndependent ==
    [][(IsProcess(call') /\ ~call'.seen) =>
          \A q \in C11_Orderings(call'.party_npcs) \ {call'.party_npcs} :
              \A other \in {EntryOutcome(call'.entry, q)} :
                 \A n \in C11_Names(call'.party_npcs) :
                    /\ C11_Entry(call'.result, n) = C11_Entry(other.created, n)
                    /\ C11_Entry(npc_emotional_states', n) = C11_Entry(other.emo, n)
                    /\ C11_Entry(npc_behavioral_models', n) = C11_Entry(other.beh, n)
                    /\ C11_Entry(npc_memories', n) = C11_Entry(other.mem, n)]_vars

\* C11 as amended.  The same, but for the identifiers: each companion's
\* returned memory and memory list agree with those of any other ordering in
\* every field except the identifier, whose sequence number follows the
\* companion's position in the list.
C11_OrderIndependentButIds ==
    [][(IsProcess(call') /\ ~call'.seen) =>
          \A q \in C11_Orderings(call'.party_npcs) \ {call'.party_npcs} :
              \A other \in {EntryOutcome(call'.entry, q)} :
                 \A n \in C11_Names(call'.party_npcs) :
                    /\ n \in DOMAIN call'.result <=> n \in DOMAIN other.created
                    /\ n \in DOMAIN call'.result =>
                          C11_NoId(call'.result[n]) = C11_NoId(other.created[n])
                    /\ C11_Entry(npc_emotional_states', n) = C11_Entry(other.emo, n)
                    /\ C11_Entry(npc_behavioral_models', n) = C11_Entry(other.beh, n)
                    /\ C11_NoIds(npc_memories', n) = C11_NoIds(other.mem, n)
                    /\ Get(interaction_counts', n, 0) = Get(other.ic, n, 0)]_vars

\* One entry created a memory for Elen and then one for Kira, who already
\* held a memory.
C11_Witness ==
    /\ IsProcess(call) /\ ~call.seen
    /\ call.party_npcs = <<"Elen", "Kira">>
    /\ DOMAIN call.result = {"Elen", "Kira"}
    /\ Len(npc_memories["Kira"]) = 2
    /\ call.result["Elen"].id = "elen_mem_002"
    /\ call.result["Kira"].id = "kira_mem_003"

\* the journal entries of the session whose summary names the companion
C12_EntriesOf(npc_name) ==
    {e \in SessionEntries : NameInText(e.summary, npc_name)}

\* C12 (clearing a companion).  After clear_npc_memories(name) the
\* companion's memory list is empty, its emotional state neutral, its
\* behavioural model all zero, its interaction counter and its interaction
\* index zero, and no fingerprint of an entry that names the companion is
\* left in the processed set, so that those entries can be replayed.
C12_ClearWipes ==
    [][call'.op = "clear_npc_memories" =>
          LET n == call'.npc_name
          IN /\ Get(npc_memories', n, <<>>) = <<>>
             /\ Get(npc_emotional_states', n, ZeroVector) = ZeroVector
             /\ Get(npc_behavioral_models', n, InitBehavioralModel) = InitBehavioralModel
             /\ Get(interaction_counts', n, 0) = 0
             /\ Get(npc_interaction_counts', n, 0) = 0
             /\ \A e \in C12_EntriesOf(n) :
                   CreateEntryHash(e) \notin processed_entries']_vars

\* the position of a memory in a list (identifiers are unique)
C13_Index(list, memory) == CHOOSE i \in DOMAIN list : list[i].id = memory.id

\* C13 (retrieval ordering).  get_relevant_memories returns at most
\* max_memories memories, all from the companion's list, each with a pull
\* above the floor 0.1, in non-increasing order of pull with equal pulls in
\* list order; no memory left out that is above the floor has a larger pull
\* than one returned.
C13_RetrievalOrdering ==
    call.op = "get_relevant_memories" =>
        LET list == Get(npc_memories, call.npc_name, <<>>)
            returned == call.result
            Pull(m) == CalculatePull(m, call.current_situation)
        IN /\ Len(returned) <= call.max_memories
           /\ \A i \in DOMAIN returned :
                 /\ \E j \in DOMAIN list : list[j] = returned[i]
                 /\ Pull(returned[i]) > 10000
           /\ \A i, j \in DOMAIN returned :
                 i < j =>
                    \/ Pull(returned[i]) > Pull(returned[j])
                    \/ /\ Pull(returned[i]) = Pull(returned[j])
                       /\ C13_Index(list, returned[i]) < C13_Index(list, returned[j])
           /\ \A k \in DOMAIN list :
                 (/\ Pull(list[k]) > 10000
                  /\ \A i \in DOMAIN returned : returned[i] # list[k])
                    => \A i \in DOMAIN returned : Pull(list[k]) <= Pull(returned[i])

\* Of three memories Kira holds, one query returned the third, which pulls
\* hardest, and left out another that is above the floor.
C13_Witness ==
    /\ call.op = "get_relevant_memories" /\ call.npc_name = "Kira"
    /\ call.max_memories = 1 /\ Len(call.result) = 1
    /\ Len(npc_memories["Kira"]) = 3
    /\ call.result[1] = npc_memories["Kira"][3]
    /\ \E k \in 1..2 :
          CalculatePull(npc_memories["Kira"][k], call.current_situation) > 10000

C14_SameInput ==
    /\ call'.op = call.op
    /\ \/ /\ call.op = "parse_entry"
          /\ call'.text = call.text /\ call'.npc_name = call.npc_name
       \/ /\ call.op = "check_crystallization"
          /\ call'.actions = call.actions /\ call'.npc_name = call.npc_name
          /\ call'.location = call.location /\ call'.timestamp = call.timestamp
          /\ call'.existing_memories = call.existing_memories

\* C14 (determinism).  Two invocations of parse_entry with the same text and
\* companion name, or of check_crystallization with the same actions, name,
\* location, timestamp and memory history, return the same output: the same
\* actions in the same order, the same memory in every field, identifier,
\* interaction index and order of the trigger actions included.
C14_Deterministic ==
    [][C14_SameInput => call'.result = call.result]_vars

C15_Axis(state, axis) == IF axis \in DOMAIN state THEN state[axis] ELSE 0

\* the labels the thresholds give, one axis after the other
C15_Labels(state) ==
    LET trust == C15_Axis(state, "trust")
        respect == C15_Axis(state, "respect")
        intimacy == C15_Axis(state, "intimacy")
        fear == C15_Axis(state, "fear")
        power == C15_Axis(state, "power")
    IN (IF 2 * trust > Unit THEN <<"Trusted Ally">>
        ELSE IF 10 * trust > 3 * Unit THEN <<"Friend">>
        ELSE IF 10 * trust < -3 * Unit THEN <<"Distrusted">> ELSE <<>>)
       \o (IF 10 * respect > 4 * Unit THEN <<"Respected">>
           ELSE IF 10 * respect < -3 * Unit THEN <<"Disrespected">> ELSE <<>>)
       \o (IF 2 * intimacy > Unit THEN <<"Close Bond">>
           ELSE IF 10 * intimacy > 3 * Unit THEN <<"Growing Closeness">> ELSE <<>>)
       \o (IF 10 * fear > 4 * Unit THEN <<"Feared">> ELSE <<>>)
       \o (IF 10 * power > 4 * Unit THEN <<"Leader">>
           ELSE IF 10 * power < -4 * Unit THEN <<"Follower">> ELSE <<>>)

C15_OrNeutral(labels) == IF labels = <<>> THEN <<"Neutral">> ELSE labels

\* C15 as stated (relationship labels).  For any companion name, the label
\* list of the profile is the list the thresholds give on the profile's
\* emotional state, never empty, and exactly <<"Neutral">> whenever no
\* threshold is met.
C15_LabelsAnyName ==
    call.op = "get_npc_profile" =>
        call.result.relationship_status
            = C15_OrNeutral(C15_Labels(call.result.emotional_state))

\* C15 amended (relationship labels).  For a companion that has an emotional
\* state, the label list of the profile is the list the thresholds give on
\* that state, each axis contributing on its own, and <<"Neutral">> when no
\* threshold is met; for a companion without an emotional state it is
\* <<"Acquaintance">>.  The list is never empty.
C15_LabelsKnownName ==
    call.op = "get_npc_profile" =>
        /\ call.result.relationship_status # <<>>
        /\ call.result.relationship_status
             = IF call.npc_name \in DOMAIN npc_emotional_states
               THEN C15_OrNeutral(C15_Labels(npc_emotional_states[call.npc_name]))
               ELSE <<"Acquaintance">>

\* profiles with two labels from different axes, with the default label, and
\* of a companion without a state have been returned
C15_Witness ==
    /\ call.op = "get_npc_profile"
    /\ call.npc_name \in DOMAIN npc_emotional_states
    /\ Len(call.result.relationship_status) = 2

C15_WitnessNeutral ==
    /\ call.op = "get_npc_profile"
    /\ call.npc_name \in DOMAIN npc_emotional_states
    /\ call.result.relationship_status = <<"Neutral">>

C16_IsQuery(c) == c.op \in {"get_relevant_memories", "get_npc_profile"}

\* C16 as stated (queries are read-only).  get_relevant_memories and
\* get_npc_profile leave the whole session state unchanged, creating no entry
\* for an unknown companion, and of the operations offered to callers only
\* process_journal_entry changes the session state.
C16_OnlyProcessMutates ==
    [][/\ C16_IsQuery(call') => UNCHANGED session
       /\ session' # session => IsProcess(call')]_vars

\* C16 amended (queries are read-only).  get_relevant_memories and
\* get_npc_profile leave the whole session state unchanged, creating no entry
\* for an unknown companion; the session state changes only in
\* process_journal_entry and clear_npc_memories.
C16_QueriesReadOnly ==
    [][/\ C16_IsQuery(call') => UNCHANGED session
       /\ session' # session =>
              IsProcess(call') \/ call'.op = "clear_npc_memories"]_vars

\* each query has been answered for a companion the session knows nothing of,
\* and none of the mappings has an entry for that companion
C16_Unknown(npc_name) ==
    /\ npc_name \notin DOMAIN npc_memories
    /\ npc_name \notin DOMAIN npc_emotional_states
    /\ npc_name \notin DOMAIN npc_behavioral_models
    /\ npc_name \notin DOMAIN interaction_counts
    /\ npc_name \notin DOMAIN npc_interaction_counts

C16_Witness ==
    /\ call.op = "get_npc_profile"
    /\ C16_Unknown(call.npc_name)
    /\ npc_memories # EmptyDict

C16_WitnessRetrieval ==
    /\ call.op = "get_relevant_memories"
    /\ C16_Unknown(call.npc_name)
    /\ npc_memories # EmptyDict

\* the sequence number written in the identifier of a memory (0 if none)
C17_Seq(memory, top) ==
    IF \E k \in 1..top : memory.id = Lower(memory.npc_name) \o "_mem_" \o Pad3(k)
    THEN CHOOSE k \in 1..top : memory.id = Lower(memory.npc_name) \o "_mem_" \o Pad3(k)
    ELSE 0

\* the memories check_crystallization created in the call recorded in c
C17_Created(c) ==
    IF IsProcess(c)
    THEN {c.checks[n].memory[1] : n \in {x \in DOMAIN c.checks : c.checks[x].memory # <<>>}}
    ELSE {}

\* the memories created before the present call
C17_Earlier ==
    C17_Created(call)
      \cup UNION {{accepted_log[n][i] : i \in DOMAIN accepted_log[n]} : n \in DOMAIN accepted_log}

\* C17 (counters on memories).  Every memory created in a call of
\* process_journal_entry carries a sequence number in its identifier that is
\* larger than that of every memory created before, of whichever companion,
\* and an interaction index larger than that of every earlier memory of the
\* same companion; no two memories share an identifier.
C17_CountersIncrease ==
    [][\A c \in C17_Created(call') :
          /\ C17_Seq(c, memory_counter') > 0
          /\ \A e \in C17_Earlier :
                /\ C17_Seq(c, memory_counter') > C17_Seq(e, memory_counter')
                /\ c.id # e.id
                /\ e.npc_name = c.npc_name
                     => c.interaction_number > e.interaction_number
          /\ \A d \in C17_Created(call') \ {c} :
                /\ c.id # d.id
                /\ C17_Seq(c, memory_counter') # C17_Seq(d, memory_counter')]_vars

\* three memories of two companions have been created, two of them Kira's
C17_Witness ==
    /\ "Kira" \in DOMAIN accepted_log /\ "Elen" \in DOMAIN accepted_log
    /\ Len(accepted_log["Kira"]) >= 2
    /\ accepted_log["Kira"][2].interaction_number
         > accepted_log["Kira"][1].interaction_number
    /\ memory_counter >= 3

C18_Abs(x) == IF x >= 0 THEN x ELSE -x

\* C18 (decay monotonicity).  apply_emotional_decay with N > 0 days makes
\* every non-zero axis strictly smaller in absolute value without changing
\* its sign and leaves a zero axis at zero; with N <= 0 days it leaves the
\* vector unchanged.
C18_DecayStrict ==
    [][call'.op = "apply_emotional_decay" =>
          IF call'.days_passed > 0
          THEN \A e \in DOMAIN vec :
                   /\ e \in DOMAIN vec'
                   /\ vec[e] = 0 => vec'[e] = 0
                   /\ vec[e] # 0 =>
                        /\ C18_Abs(vec'[e]) < C18_Abs(vec[e])
                        /\ vec'[e] * vec[e] >= 0
          ELSE vec' = vec]_vars

C19_Axes == {"protector_vs_exploiter", "consistent_vs_chaotic",
             "generous_vs_greedy", "truthful_vs_deceptive", "violent_vs_peaceful"}

C19_Clamp(x) == IF x > 10 THEN 10 ELSE IF x < -10 THEN -10 ELSE x

\* C19 (behavioural model bounds).  After every call of process_journal_entry
\* each of the five behavioural axes of every companion lies in [-1, 1] (here
\* in tenths); the model of a companion changes only in a call that accepts a
\* memory of that companion, and then each axis is the old value moved by
\* +0.1 for some and -0.2 for others of the actions of the batch, clamped once
\* at the end.
C19_BehaviouralBounds ==
    [][IsProcess(call') =>
          \A n \in DOMAIN npc_behavioral_models' :
              LET new == npc_behavioral_models'[n]
                  old == IF n \in DOMAIN npc_behavioral_models
                         THEN npc_behavioral_models[n]
                         ELSE [k \in C19_Axes |-> 0]
              IN /\ DOMAIN new = C19_Axes
                 /\ \A k \in C19_Axes : new[k] >= -10 /\ new[k] <= 10
                 /\ IF n \in DOMAIN call'.result
                    THEN LET count == Len(call'.checks[n].actions)
                         IN \A k \in C19_Axes :
                               \E a \in 0..count : \E b \in 0..(count - a) :
                                   new[k] = C19_Clamp(old[k] + a - 2 * b)
                    ELSE n \in DOMAIN npc_behavioral_models /\ new = old]_vars

\* a sixth betrayal by Kira has been accepted with her protector axis already
\* at -1: the nudge of -0.2 was clamped away
C19_Witness ==
    /\ IsProcess(call) /\ "Kira" \in DOMAIN call.result
    /\ Len(accepted_log["Kira"]) = 6
    /\ "betrayed trust" \in call.result["Kira"].trigger_actions
    /\ npc_behavioral_models["Kira"]["protector_vs_exploiter"] = -10

\* the plain sum, over the actions from the i-th on, of the impacts on one axis
RECURSIVE C20_Sum(_, _, _)
C20_Sum(actions, e, i) ==
    IF i > Len(actions) THEN 0
    ELSE (IF e \in DOMAIN actions[i].emotional_impact
          THEN actions[i].emotional_impact[e] ELSE 0)
         + C20_Sum(actions, e, i + 1)

\* C20 (raw delta).  The emotional delta that check_crystallization stores in
\* the memory is, on every axis, the plain sum of the impacts of all actions
\* of the batch, with nothing clamped: a batch with a negative intimacy impact
\* gives a negative intimacy component.
C20_RawDelta ==
    (call.op = "check_crystallization" /\ call.result # <<>>) =>
        \A e \in EmotionSet :
            call.result[1].emotional_vector[e] = C20_Sum(call.actions, e, 1)

\* the classification one earlier memory gives to a new delta ("None": no rule)
C21_Rule(new_emotion, memory) ==
    LET memory_vector == NewVector(memory.emotional_vector)
    IN IF CosLess(new_emotion, memory_vector, -7) THEN "REVERSAL"
       ELSE IF CosGreater(new_emotion, memory_vector, 8) THEN "CONFIRMATION"
       ELSE IF CosAbsLess(new_emotion, memory_vector, 2) /\ MagSq(new_emotion) > 9
            THEN "COMPLEXITY"
       ELSE "None"

\* the k most recently created memories of a set, the most recent first
RECURSIVE C21_MostRecentFirst(_, _, _)
C21_MostRecentFirst(S, k, top) ==
    IF S = {} \/ k = 0 THEN <<>>
    ELSE LET m == CHOOSE x \in S : \A y \in S : C17_Seq(x, top) >= C17_Seq(y, top)
         IN <<m>> \o C21_MostRecentFirst(S \ {m}, k - 1, top)

\* the classification of the first memory of a sequence that matches a rule
RECURSIVE C21_FirstMatch(_, _, _)
C21_FirstMatch(new_emotion, memories, i) ==
    IF i > Len(memories) THEN "None"
    ELSE IF C21_Rule(new_emotion, memories[i]) # "None"
         THEN C21_Rule(new_emotion, memories[i])
         ELSE C21_FirstMatch(new_emotion, memories, i + 1)

\* C21 (cascade detection order).  The cascade type of a memory created in a
\* call of process_journal_entry is the classification of the first of the
\* companion's up to three most recently created memories, taken from the
\* most recent to the oldest, that matches a rule, and none when none matches
\* or the companion has no memories.
C21_MostRecentDecides ==
    [][IsProcess(call') =>
          \A n \in DOMAIN call'.checks :
              call'.checks[n].memory # <<>> =>
                  LET c == call'.checks[n].memory[1]
                      before == Get(npc_memories, n, <<>>)
                      recent == C21_MostRecentFirst(
                                    {before[i] : i \in DOMAIN before}, 3, memory_counter')
                  IN c.cascade_type
                       = C21_FirstMatch(NewVector(c.emotional_vector), recent, 1)]_vars

\* C22 (decay amount).  When a memory is accepted for a companion that
\* already has memories, the emotional state afterwards is the state before
\* decayed over d days with the new delta added, d being the relative day of
\* the call minus the relative day of the companion's most recently accepted
\* memory.
C22_DecaySinceLastAccepted ==
    [][IsProcess(call') =>
          \A n \in DOMAIN call'.result :
              (n \in DOMAIN accepted_log /\ n \in DOMAIN npc_emotional_states) =>
                  LET c == call'.result[n]
                      last == accepted_log[n][Len(accepted_log[n])]
                      d == c.relative_day - last.relative_day
                  IN npc_emotional_states'[n]
                       = AddDelta(ApplyEmotionalDecay(npc_emotional_states[n], d),
                                  c.emotional_vector, 1)]_vars

\* what a mapping holds for a key: <<>> when it has no entry
C23_Entry(d, n) == IF n \in DOMAIN d THEN <<d[n]>> ELSE <<>>

\* the companions of the party the entry mentions for which no memory was
\* created: nothing was parsed, or the velocity was below the threshold
C23_Quiet(c) ==
    {n \in {c.party_npcs[i] : i \in DOMAIN c.party_npcs} :
        /\ NameInText(Get(c.entry, "summary", <<>>), n)
        /\ n \notin DOMAIN c.checks \/ c.checks[n].memory = <<>>}

\* C23 (below-threshold and no-action interactions).  A call of
\* process_journal_entry leaves the emotional state, the behavioural model and
\* the memory list of a mentioned companion whose action list is empty or
\* whose velocity is below the threshold as they were, an absent entry staying
\* absent, and omits the companion from the returned mapping.
C23_QuietUnchanged ==
    [][(IsProcess(call') /\ ~call'.seen) =>
          \A n \in C23_Quiet(call') :
              /\ C23_Entry(npc_emotional_states', n) = C23_Entry(npc_emotional_states, n)
              /\ C23_Entry(npc_behavioral_models', n) = C23_Entry(npc_behavioral_models, n)
              /\ C23_Entry(npc_memories', n) = C23_Entry(npc_memories, n)
              /\ n \notin DOMAIN call'.result]_vars

\* the companions of the party that the summary of the call's entry mentions
C24_Mentioned(c) ==
    IF c.seen THEN {}
    ELSE {n \in {c.party_npcs[i] : i \in DOMAIN c.party_npcs} :
             NameInText(Get(c.entry, "summary", <<>>), n)}

\* the counter of each mentioned companion of the party goes up by one, all
\* other counters stay
C24_Counts ==
    \A n \in DOMAIN interaction_counts \cup DOMAIN interaction_counts'
             \cup C24_Mentioned(call') :
        IF n \in C24_Mentioned(call')
        THEN /\ n \in DOMAIN interaction_counts'
             /\ interaction_counts'[n] = Get(interaction_counts, n, 0) + 1
        ELSE C23_Entry(interaction_counts', n) = C23_Entry(interaction_counts, n)

\* no memory created in the call carries an index above the counter
C24_Index ==
    \A c \in C17_Created(call') :
        c.interaction_number <= Get(interaction_counts', c.npc_name, 0)

\* C24 (interaction counter).  A call of process_journal_entry adds exactly 1
\* to the interaction counter of each companion of the party that a
\* non-duplicate entry mentions, whatever becomes of the parsed actions, and
\* leaves the counters of the other companions alone; the interaction index
\* stamped on a memory never exceeds the companion's counter.
C24_InteractionCounter ==
    [][IsProcess(call') => C24_Counts /\ C24_Index]_vars

\* C25 (situation vector precedence).  When the situation descriptor of a
\* retrieval carries explicit emotion hints, the situation vector used for the
\* pull is those hints, clamped to the axis ranges, with no action-type,
\* danger-level or social-context nudge applied.
C25_HintsTakePrecedence ==
    (call.op = "get_relevant_memories" /\ "emotions" \in DOMAIN call.current_situation) =>
        ExtractSituationVector(call.current_situation)
            = NewVector(call.current_situation.emotions)

\* the positions in the list at which the memories of a chain stand go up
C26_InOrder(chain, memories) ==
    \E pos \in [DOMAIN chain -> DOMAIN memories] :
        /\ \A x \in DOMAIN chain : memories[pos[x]] = chain[x]
        /\ \A x \in DOMAIN chain : x > 1 => pos[x] > pos[x - 1]

C26_Shape(chains, memories, longest) ==
    /\ \A x \in DOMAIN chains :
          /\ Len(chains[x]) >= 2 /\ Len(chains[x]) <= longest
          /\ C26_InOrder(chains[x], memories)
          /\ \A y \in 2..Len(chains[x]) :
                CosGreater(NewVector(chains[x][y - 1].emotional_vector),
                           NewVector(chains[x][y].emotional_vector), 5)
          /\ \A y, z \in DOMAIN chains[x] : y # z => chains[x][y] # chains[x][z]
    /\ \A x, y \in DOMAIN chains :
          x # y => \A a \in DOMAIN chains[x], b \in DOMAIN chains[y] :
                       chains[x][a] # chains[y][b]

\* C26 (memory chains).  Every chain returned by detect_memory_chains has at
\* least 2 and at most max_chain_length memories, lists them in the order of
\* the input, has cosine similarity above 0.5 between neighbours, and no
\* memory stands in two chains or twice in one.
C26_Chains ==
    call.op = "detect_memory_chains" =>
        C26_Shape(call.result, call.memories, call.max_chain_length)

\* the same with chains of two allowed whatever max_chain_length is
C26_ChainsOfTwo ==
    call.op = "detect_memory_chains" =>
        C26_Shape(call.result, call.memories,
                  IF call.max_chain_length < 2 THEN 2 ELSE call.max_chain_length)

\* x (in hundredths) is the square root of q hundredths-squared, rounded to
\* the nearest hundredth
C27_IsRoundedRoot(x, q) ==
    /\ x >= 0
    /\ (2 * x - 1) * (2 * x - 1) <= 4 * q
    /\ 4 * q < (2 * x + 1) * (2 * x + 1)

\* the square of the multiplier of a cascade type, in hundredths
C27_FactorSq(cascade_type) ==
    IF cascade_type = "REVERSAL" THEN 225
    ELSE IF cascade_type = "COMPLEXITY" THEN 169
    ELSE IF cascade_type = "CONFIRMATION" THEN 144
    ELSE 100

\* C27 (mass).  To the two decimals a memory stores, the mass of every memory
\* that check_crystallization returns is its velocity (the magnitude of its
\* delta) times 1.5 for REVERSAL, 1.3 for COMPLEXITY, 1.2 for CONFIRMATION and
\* 1.0 without cascade type; the stored mass is never below the stored
\* velocity, and a memory created without history has no cascade type and a
\* mass equal to its velocity.
C27_Mass ==
    (call.op = "check_crystallization" /\ call.result # <<>>) =>
        LET c == call.result[1]
        IN /\ c.cascade_type \in {"REVERSAL", "COMPLEXITY", "CONFIRMATION", "None"}
           /\ C27_IsRoundedRoot(c.emotional_velocity, 100 * MagSq(c.emotional_vector))
           /\ C27_IsRoundedRoot(c.mass,
                  C27_FactorSq(c.cascade_type) * MagSq(c.emotional_vector))
           /\ c.mass >= c.emotional_velocity
           /\ call.existing_memories = <<>> =>
                  c.cascade_type = "None" /\ c.mass = c.emotional_velocity

\* a memory of velocity 0.5 has been returned as a COMPLEXITY of mass 0.65
C27_Witness ==
    /\ call.op = "check_crystallization" /\ call.result # <<>>
    /\ call.result[1].cascade_type = "COMPLEXITY"
    /\ call.result[1].emotional_velocity = 50
    /\ call.result[1].mass = 65

C28_Min(a, b) == IF a < b THEN a ELSE b

\* C28 (decay resistance).  To the two decimals a memory stores, the decay
\* resistance of every memory that crystallizes from a batch is
\* min(1, min(1, velocity * 1.5) + min(0.2, 0.05 * number of actions)
\*        + (0.2 for REVERSAL or COMPLEXITY, else 0)), and the decay
\* resistance of every memory in a companion's list lies in (0, 1].
C28_Formula(c, action_count) ==
    LET bonus == C28_Min(20, 5 * action_count)
                 + (IF c.cascade_type \in {"REVERSAL", "COMPLEXITY"} THEN 20 ELSE 0)
    IN \E base \in 0..400 :
          /\ C27_IsRoundedRoot(base, 225 * MagSq(c.emotional_vector))
          /\ c.decay_resistance = C28_Min(100, C28_Min(100, base) + bonus)

C28_DecayResistance ==
    /\ IsProcess(call) =>
          \A n \in DOMAIN call.checks :
              call.checks[n].memory # <<>> =>
                  C28_Formula(call.checks[n].memory[1], Len(call.checks[n].actions))
    /\ \A n \in DOMAIN npc_memories :
          \A i \in DOMAIN npc_memories[n] :
              /\ npc_memories[n][i].decay_resistance > 0
              /\ npc_memories[n][i].decay_resistance <= 100

\* the same formula for a direct call of check_crystallization, where the
\* COMPLEXITY cascade occurs as well
C28_DirectCall ==
    (call.op = "check_crystallization" /\ call.result # <<>>) =>
        /\ C28_Formula(call.result[1], Len(call.actions))
        /\ call.result[1].decay_resistance > 0
        /\ call.result[1].decay_resistance <= 100

\* a companion's list holds a memory whose resistance is below the cap and a
\* REVERSAL memory whose sum was cut to 1
C28_Witness ==
    /\ IsProcess(call)
    /\ \E n \in DOMAIN call.checks :
          /\ call.checks[n].memory # <<>>
          /\ call.checks[n].memory[1].cascade_type = "REVERSAL"
          /\ call.checks[n].memory[1].decay_resistance = 100
          /\ \E i \in DOMAIN npc_memories[n] :
                npc_memories[n][i].id = call.checks[n].memory[1].id
          /\ \E i \in DOMAIN npc_memories[n] :
                npc_memories[n][i].decay_resistance < 100

\* position of a pattern in the two catalogues taken one after the other
C29_Position(pat) == CHOOSE i \in DOMAIN Catalogue : Catalogue[i].id = pat

\* the pattern matches some stretch of the text that lies within 150
\* characters before and after a word-boundary mention of the companion
C29_InWindow(text, npc, pat) ==
    \E m \in DOMAIN text, i \in DOMAIN text :
        /\ text[m].k = "name" /\ Lower(text[m].s) = Lower(npc)
        /\ text[i].k = "phrase"
        /\ \E x \in PhraseMatches(text[i].s) :
              /\ x.pat = pat
              /\ StartOf(text, i) + x.off >= StartOf(text, m) - 150
              /\ StartOf(text, i) + x.off + x.len <= EndOf(text, m) + 150

\* C29 (parser output shape).  parse_entry returns the empty list when no
\* word-boundary, case-insensitive mention of the companion is in the text;
\* otherwise no pattern is returned twice, every returned pattern matches in
\* the 150-character window of some mention and carries the tag of its
\* catalogue, and the actions stand in catalogue order, positive catalogue
\* first.
C29_ParserShape ==
    call.op = "parse_entry" =>
        LET r == call.result
            mentioned == \E m \in DOMAIN call.text :
                            /\ call.text[m].k = "name"
                            /\ Lower(call.text[m].s) = Lower(call.npc_name)
        IN /\ ~mentioned => r = <<>>
           /\ \A i, j \in DOMAIN r : i # j => r[i].pattern # r[j].pattern
           /\ \A i \in DOMAIN r :
                 /\ \E k \in DOMAIN Catalogue : Catalogue[k].id = r[i].pattern
                 /\ r[i].action_type = Catalogue[C29_Position(r[i].pattern)].type
                 /\ r[i].action_type \in {"positive", "negative"}
                 /\ C29_InWindow(call.text, call.npc_name, r[i].pattern)
           /\ \A i, j \in DOMAIN r :
                 i < j => /\ C29_Position(r[i].pattern) < C29_Position(r[j].pattern)
                          /\ r[i].action_type = "negative" => r[j].action_type = "negative"

\* a text that mentions the companion twice, in two spellings, and holds a
\* negative pattern twice before and after a positive one has been parsed
C29_Witness ==
    /\ call.op = "parse_entry" /\ call.text = Text_twice
    /\ Len(call.result) = 2
    /\ call.result[1].action_type = "positive" /\ call.result[1].pattern = 1
    /\ call.result[2].action_type = "negative" /\ call.result[2].pattern = 114

\* C30 (returned memories are stored).  Every memory that
\* process_journal_entry returns for a companion is in that companion's
\* memory list when the call returns.
C30_ReturnedStored ==
    IsProcess(call) =>
        \A n \in DOMAIN call.result :
            \E i \in DOMAIN npc_memories[n] :
                npc_memories[n][i].id = call.result[n].id

=============================================================================
